---- MODULE Spec2Model ----
(***************************************************************************)
(* Property research workflow (src/src/main.py, src/src/state.py and the   *)
(* step classes of src/src/nodes).                                         *)
(*                                                                         *)
(* PropertyResearchGraph wires twelve steps into a langgraph StateGraph    *)
(* over PropertyResearchState.  The graph engine executes the steps in     *)
(* supersteps: every step triggered by an edge of a step that completed in *)
(* the previous superstep runs against the same snapshot of the record;    *)
(* when all of them have returned, their updates are merged key by key     *)
(* (a key annotated with a reducer through its reducer; any other key      *)
(* takes the value written, and two writes to it in one superstep are      *)
(* rejected) and the next superstep starts.                                *)
(*                                                                         *)
(* Python values: None of a scalar is the string "None"; a list-typed      *)
(* value is the record [none, items] so that None and [] stay apart.       *)
(***************************************************************************)
EXTENDS Integers, Sequences, FiniteSets, Bags, TLC

\* Largest number of individual owners an analysis reports.
MaxOwners == 1

NoneL == [none |-> TRUE, items |-> <<>>]
L(s) == [none |-> FALSE, items |-> s]

\* An errors entry: the message kind and the owner it names ("-" if none).
E(m) == [m |-> m, o |-> "-"]
EO(m, o) == [m |-> m, o |-> o]

OwnerNames == <<"o1", "o2", "o3">>

Nodes ==
    {"initialize", "zola_search", "reonomy_search", "acris_search",
     "process_documents", "property_shark_search", "analyze_owner",
     "search_opencorporates", "search_skipgenie", "search_true_people",
     "refine_phone_numbers", "finalize"}

\* Keys of PropertyResearchState; an update key outside it is dropped.
SchemaKeys ==
    {"address", "zola_owner_name", "reonomy_address_data",
     "acris_property_records", "property_ownership_records",
     "property_shark_ownership_data", "property_shark_phones",
     "skipgenie_phones", "truepeoplesearch_phones", "refined_phone_numbers",
     "refined_phone_data", "individual_owners", "has_individual_owners",
     "company_registry_data", "person_search_results", "owner_name",
     "owner_type", "contact_number", "current_step", "next_steps", "errors"}

\* Keys declared Annotated[..., reducer].
ReducerKeys == {"address", "zola_owner_name", "current_step", "next_steps", "errors"}

PlainKeys == SchemaKeys \ ReducerKeys

\* create_initial_state: reonomy_address_data and refined_phone_data are
\* not given a value, so they are absent from the record until written.
InitialState(a) ==
    [address |-> a,
     zola_owner_name |-> "None",
     acris_property_records |-> "None",
     property_ownership_records |-> "None",
     property_shark_ownership_data |-> "None",
     property_shark_phones |-> NoneL,
     skipgenie_phones |-> NoneL,
     truepeoplesearch_phones |-> NoneL,
     refined_phone_numbers |-> NoneL,
     individual_owners |-> NoneL,
     has_individual_owners |-> FALSE,
     company_registry_data |-> "None",
     person_search_results |-> "None",
     owner_name |-> "None",
     owner_type |-> "None",
     contact_number |-> "None",
     current_step |-> "starting workflow",
     next_steps |-> L(<<"initialize">>),
     errors |-> L(<<>>)]

\* state.get(k, d)
Get(s, k, d) == IF k \in DOMAIN s THEN s[k] ELSE d

\* str.lower() on the owner types the analysis can report
Lower(t) == IF t = "LLC" THEN "llc" ELSE t

\* What a step hands back to the engine: an update, or an exception that
\* leaves the step.
Ret(u) == [kind |-> "ret", upd |-> u, exc |-> "-"]
Raise(x) == [kind |-> "raise", upd |-> <<>>, exc |-> x]

\* Python truthiness of an optional string
Truthy(x) == x \notin {"None", ""}

\* Python truthiness of an optional list
TruthyL(x) == ~x.none /\ x.items # <<>>

\* {**state, ...}: every key of the snapshot, overridden by the keys of u
Copy(s, u) == u @@ s

-----------------------------------------------------------------------------
(* The steps.  Each takes the snapshot s it is called with and the outcome *)
(* oc of the lookups it makes, and gives what run returns or raises.       *)

InitializerRun(s) ==
    Ret([current_step |-> "Initialization completed",
         next_steps |-> L(<<"zola_search", "acris_search", "property_shark_search">>)])

ZolaRun(s, oc) ==
    IF oc = "ok"
    THEN Ret(Copy(s, [zola_results |-> "zola",
                      current_step |-> "ZoLa search completed",
                      next_steps |-> L(<<"acris_search">>)]))
    ELSE Ret(Copy(s, [errors |-> L(s["errors"].items \o <<E("ZoLa search error")>>),
                      current_step |-> "ZoLa search failed",
                      next_steps |-> L(<<"acris_search">>)]))

ReonomyRun(s, oc) ==
    IF oc = "ok"
    THEN Ret([reonomy_address_data |-> "reonomy",
              current_step |-> "Reonomy search completed",
              next_steps |-> L(<<"acris_search">>)])
    ELSE Ret([errors |-> L(<<E("Reonomy search error")>>),
              current_step |-> "Reonomy search failed",
              next_steps |-> L(<<"acris_search">>)])

\* oc: "files" (a dict with a non-empty files list), "nofiles" (any other
\* result of search_acris) or "fault"
AcrisRun(s, oc) ==
    IF oc # "fault"
    THEN Ret([acris_property_records |-> oc,
              current_step |-> "ACRIS search completed",
              next_steps |-> L(<<"process_documents">>)])
    ELSE Ret([errors |-> L(<<E("ACRIS search error")>>),
              current_step |-> "ACRIS search failed",
              next_steps |-> L(<<"analyze_owner">>)])

PropertySharkNext(s) ==
    IF Truthy(Get(s, "owner_name", "None"))
    THEN L(<<"search_opencorporates">>) ELSE L(<<"analyze_owner">>)

PropertySharkRun(s, oc) ==
    IF oc = "ok"
    THEN Ret(Copy(s, [property_shark_results |-> "shark",
                      current_step |-> "PropertyShark search completed",
                      next_steps |-> PropertySharkNext(s)]))
    ELSE Ret(Copy(s, [errors |-> L(s["errors"].items \o <<E("PropertyShark search error")>>),
                      current_step |-> "PropertyShark search failed",
                      next_steps |-> PropertySharkNext(s)]))

\* The step reads the key acris_results, which no step writes and which is
\* not a key of the record.
DocumentProcessorRun(s, oc) ==
    IF ~Truthy(Get(s, "acris_results", "None"))
    THEN Ret(Copy(s, [current_step |-> "Document processing skipped (no ACRIS results)",
                      next_steps |-> L(<<"analyze_owner">>)]))
    ELSE IF oc = "ok"
    THEN Ret(Copy(s, [documents |-> "documents",
                      current_step |-> "Document processing completed",
                      next_steps |-> L(<<"analyze_owner">>)]))
    ELSE Ret(Copy(s, [errors |-> L(s["errors"].items \o <<E("Document processing error")>>),
                      current_step |-> "Document processing failed",
                      next_steps |-> L(<<"analyze_owner">>)]))

\* An extraction that gives None when there is no PropertyShark data
ExtractPropertySharkPhonesOrNone(s) ==
    IF Get(s, "property_shark_ownership_data", "None") = "shark"
    THEN L(<<"shark_phone">>) ELSE NoneL

\* _extract_property_shark_phones: the phones of the real_owners of
\* property_shark_ownership_data when that is a dict, else none.
ExtractPropertySharkPhones(s) ==
    IF Get(s, "property_shark_ownership_data", "None") = "shark"
    THEN L(<<"shark_phone">>) ELSE L(<<>>)

\* oc: [fault, owner_type, owners, flag] - the analysis of the record
AnalyzerRun(s, oc) ==
    IF oc.fault
    THEN Ret([errors |-> L(<<E("Analysis error")>>),
              current_step |-> "Analysis failed",
              next_steps |-> L(<<>>)])
    ELSE Ret([owner_name |-> "o0",
              owner_type |-> oc.owner_type,
              individual_owners |-> L(oc.owners),
              has_individual_owners |-> (oc.flag /\ Len(oc.owners) > 0),
              confidence |-> "low",
              extracted_contacts |-> "contacts",
              extracted_emails |-> "emails",
              extracted_notes |-> "notes",
              property_shark_phones |-> ExtractPropertySharkPhones(s),
              current_step |-> "Analysis completed",
              next_steps |-> L(<<>>)])

OpenCorporatesRun(s, oc) ==
    LET extracted_data == Get(s, "extracted_data", "{}") IN
    IF ~Truthy(Get(s, "owner_name", "None"))
    THEN Ret([extracted_data |-> extracted_data,
              current_step |-> "OpenCorporates search skipped (no owner name)",
              next_steps |-> L(<<"search_skipgenie">>)])
    ELSE IF oc = "ok"
    THEN Ret([extracted_data |-> extracted_data,
              company_registry_data |-> "registry",
              current_step |-> "OpenCorporates search completed",
              next_steps |-> L(<<"search_skipgenie">>)])
    ELSE Ret([extracted_data |-> extracted_data,
              errors |-> L(<<E("OpenCorporates search error")>>),
              current_step |-> "OpenCorporates search failed",
              next_steps |-> L(<<"search_skipgenie">>)])

\* The owners a contact search looks up: individual_owners, or the owner
\* itself when that is an individual.  owner_type is lowered only when
\* individual_owners is empty or None.
OwnersNeedType(s) == ~TruthyL(Get(s, "individual_owners", L(<<>>)))

OwnersToSearch(s) ==
    LET io == Get(s, "individual_owners", L(<<>>))
        owner_name == Get(s, "owner_name", "None")
        owner_type == Lower(Get(s, "owner_type", ""))
    IN  IF TruthyL(io) THEN io.items
        ELSE IF Truthy(owner_name) /\ owner_type = "individual"
        THEN <<owner_name>> ELSE <<>>

\* The owners (in search order) whose lookup had outcome r
OwnersWith(owners, per, r) ==
    LET F[i \in 0..Len(owners)] ==
            IF i = 0 THEN <<>>
            ELSE IF per[i] = r THEN Append(F[i-1], owners[i]) ELSE F[i-1]
    IN  F[Len(owners)]

\* oc: [cred, per] - whether the SkipGenie credentials are set, and for
\* each owner searched "found", "none" or "fault"
SkipGenieRun(s, oc) ==
    IF OwnersNeedType(s) /\ Get(s, "owner_type", "") = "None"
    THEN Raise("AttributeError")
    ELSE LET owners == OwnersToSearch(s)
             phones == OwnersWith(owners, oc.per, "found")
         IN  IF owners = <<>>
             THEN Ret([current_step |-> "SkipGenie search skipped (no individual owners)",
                       next_steps |-> L(<<"search_true_people">>),
                       skipgenie_phones |-> L(<<>>)])
             ELSE IF ~oc.cred
             THEN Ret([current_step |-> "SkipGenie search skipped (credentials not set)",
                       next_steps |-> L(<<"search_true_people">>),
                       skipgenie_phones |-> L(<<>>)])
             ELSE IF phones # <<>>
             THEN Ret([current_step |-> "SkipGenie search completed - found data",
                       next_steps |-> L(<<"search_true_people">>),
                       skipgenie_results |-> "contact_info",
                       skipgenie_phones |-> L(phones)])
             ELSE Ret([current_step |-> "SkipGenie search completed - no results found",
                       next_steps |-> L(<<"search_true_people">>),
                       skipgenie_phones |-> L(<<>>)])

\* The errors list TruePeopleSearchNode.run collects, in search order
TruePeopleErrors(owners, per) ==
    LET F[i \in 0..Len(owners)] ==
            IF i = 0 THEN <<>>
            ELSE IF per[i] = "errdict"
                 THEN Append(F[i-1], EO("TruePeopleSearch error for", owners[i]))
            ELSE IF per[i] = "fault"
                 THEN Append(F[i-1], EO("Error searching TruePeopleSearch for", owners[i]))
            ELSE F[i-1]
    IN  F[Len(owners)]

\* oc: [per] - for each owner searched "found", "none", "errdict" (the
\* search returned an error dict) or "fault"
TruePeopleSearchRun(s, oc) ==
    IF OwnersNeedType(s) /\ Get(s, "owner_type", "") = "None"
    THEN Raise("AttributeError")
    ELSE LET owners == OwnersToSearch(s)
             errors == TruePeopleErrors(owners, oc.per)
         IN  IF owners = <<>>
             THEN Ret([current_step |-> "TruePeopleSearch search skipped (no individual owners)",
                       next_steps |-> L(<<"refine_phone_numbers">>),
                       truepeoplesearch_phones |-> L(<<>>)])
             ELSE Ret([current_step |-> "TruePeopleSearch search completed",
                       next_steps |-> L(<<"refine_phone_numbers">>),
                       truepeoplesearch_results |-> "contact_info",
                       truepeoplesearch_phones |-> L(OwnersWith(owners, oc.per, "found")),
                       errors |-> IF errors # <<>> THEN L(errors) ELSE NoneL])

\* The distinct entries of a list, in order of first appearance
Distinct(q) ==
    LET F[i \in 0..Len(q)] ==
            IF i = 0 THEN <<>>
            ELSE IF \E j \in 1..Len(F[i-1]) : F[i-1][j] = q[i]
                 THEN F[i-1] ELSE Append(F[i-1], q[i])
    IN  F[Len(q)]

\* oc: "ok" or "fault" of _analyze_phone_numbers.  A phone entry is
\* abstracted to the contact it was found for.  len() of a phone list that
\* is still None raises inside the try block.
PhoneNumberRefinerRun(s, oc) ==
    LET property_shark_phones == Get(s, "property_shark_phones", L(<<>>))
        skipgenie_phones == Get(s, "skipgenie_phones", L(<<>>))
        truepeoplesearch_phones == Get(s, "truepeoplesearch_phones", L(<<>>))
        all == property_shark_phones.items \o skipgenie_phones.items
                   \o truepeoplesearch_phones.items
        failed == Ret([refined_phone_data |-> "{}",
                       refined_phone_numbers |-> L(<<>>),
                       contact_number |-> "None",
                       current_step |-> "Phone number refinement error",
                       next_steps |-> L(<<"finalize">>),
                       errors |-> L(<<E("Phone number refinement error")>>)])
    IN  IF property_shark_phones.none \/ skipgenie_phones.none
              \/ truepeoplesearch_phones.none
        THEN failed
        ELSE IF Len(all) = 0
        THEN Ret([refined_phone_data |-> "{}",
                  refined_phone_numbers |-> L(<<>>),
                  contact_number |-> "None",
                  current_step |-> "Phone number refinement skipped (no numbers found)",
                  next_steps |-> L(<<"finalize">>)])
        ELSE IF oc = "ok"
        THEN Ret([refined_phone_data |-> "by_contact",
                  refined_phone_numbers |-> L(Distinct(all)),
                  contact_number |-> Distinct(all)[1],
                  refinement_notes |-> "notes",
                  current_step |-> "Phone number refinement completed",
                  next_steps |-> L(<<"finalize">>)])
        ELSE failed

-----------------------------------------------------------------------------
(* The rule-based owner extraction of the analyzer.  A name is a sequence  *)
(* of characters; None and "" are both the empty sequence, as the code     *)
(* only tests names for truth.                                             *)

\* Most ownership records the documents of a property give
MaxRecords == 2

LowerCase == <<"a", "b", "c", "d", "e", "f", "g", "h", "i", "j", "k", "l", "m",
               "n", "o", "p", "q", "r", "s", "t", "u", "v", "w", "x", "y", "z">>
UpperCase == <<"A", "B", "C", "D", "E", "F", "G", "H", "I", "J", "K", "L", "M",
               "N", "O", "P", "Q", "R", "S", "T", "U", "V", "W", "X", "Y", "Z">>

\* str.upper
Upper(name) ==
    [i \in 1..Len(name) |->
        IF \E k \in 1..26 : LowerCase[k] = name[i]
        THEN UpperCase[CHOOSE k \in 1..26 : LowerCase[k] = name[i]]
        ELSE name[i]]

\* str.strip
Strip(name) ==
    LET ink == {i \in 1..Len(name) : name[i] # " "}
    IN  IF ink = {} THEN <<>>
        ELSE SubSeq(name, CHOOSE i \in ink : \A j \in ink : i <= j,
                          CHOOSE i \in ink : \A j \in ink : i >= j)

StartsWith(name, i, pat) ==
    i + Len(pat) - 1 <= Len(name) /\ SubSeq(name, i, i + Len(pat) - 1) = pat

\* pat in name
Contains(name, pat) == \E i \in 1..(Len(name) + 1) : StartsWith(name, i, pat)

\* str.replace(pat, rep): the occurrences of pat from the left, not overlapping
RECURSIVE ReplaceFrom(_, _, _, _)
ReplaceFrom(name, i, pat, rep) ==
    IF i > Len(name) THEN <<>>
    ELSE IF StartsWith(name, i, pat) THEN rep \o ReplaceFrom(name, i + Len(pat), pat, rep)
    ELSE <<name[i]>> \o ReplaceFrom(name, i + 1, pat, rep)

Replace(name, pat, rep) == ReplaceFrom(name, 1, pat, rep)

\* The normalization of _names_match for the variations of LLC
LLCNormalized(n) ==
    Replace(Replace(Replace(Replace(n, <<".">>, <<>>), <<",">>, <<>>),
                    <<" ", "L", "L", "C">>, <<"L", "L", "C">>),
            <<"L", ".", "L", ".", "C">>, <<"L", "L", "C">>)

\* _names_match
NamesMatch(name1, name2) ==
    IF name1 = <<>> \/ name2 = <<>> THEN FALSE
    ELSE LET n1 == Strip(Upper(name1))
             n2 == Strip(Upper(name2))
         IN  \/ n1 = n2
             \/ LLCNormalized(n1) = LLCNormalized(n2)
             \/ (Len(n1) > 5 /\ Len(n2) > 5 /\ (Contains(n2, n1) \/ Contains(n1, n2)))

\* _determine_owner_type
DetermineOwnerType(owner_name) ==
    IF owner_name = <<>> THEN "unknown"
    ELSE LET upper_name == Upper(owner_name)
         IN  IF Contains(upper_name, <<"L", "L", "C">>)
                    \/ Contains(upper_name, <<"L", ".", "L", ".", "C">>) THEN "llc"
             ELSE IF Contains(upper_name, <<"C", "O", "R", "P">>)
                    \/ Contains(upper_name, <<"I", "N", "C">>) THEN "corporation"
             ELSE "individual"

Unknown == <<"U", "n", "k", "n", "o", "w", "n">>

\* The entity_owner of the first ownership record that has one
AcrisOwner(property_ownership_records) ==
    LET with == {i \in 1..Len(property_ownership_records) :
                    property_ownership_records[i].entity_owner # <<>>}
    IN  IF with = {} THEN <<>>
        ELSE property_ownership_records[CHOOSE i \in with : \A j \in with : i <= j].entity_owner

\* An extraction that prefers the name of ZoLa to the other two
FallbackExtractionZolaFirst(ps_owner, property_ownership_records, zola_owner) ==
    LET acris_owner == AcrisOwner(property_ownership_records)
        name == IF zola_owner # <<>> THEN zola_owner
                ELSE IF ps_owner # <<>> THEN ps_owner
                ELSE IF acris_owner # <<>> THEN acris_owner ELSE Unknown
    IN  [owner_name |-> name,
         owner_type |-> IF name = Unknown THEN "unknown" ELSE DetermineOwnerType(name),
         confidence |-> "low"]

\* _fallback_extraction, as far as the owner goes: ps_owner is the name of
\* the registered owner in property_shark_ownership_data
FallbackExtraction(ps_owner, property_ownership_records, zola_owner) ==
    LET acris_owner == AcrisOwner(property_ownership_records)
    IN  IF ps_owner # <<>>
        THEN [owner_name |-> ps_owner,
              owner_type |-> DetermineOwnerType(ps_owner),
              confidence |->
                  IF (zola_owner # <<>> /\ NamesMatch(ps_owner, zola_owner))
                        \/ (acris_owner # <<>> /\ NamesMatch(ps_owner, acris_owner))
                  THEN "high"
                  ELSE IF zola_owner = <<>> /\ acris_owner = <<>> THEN "medium"
                  ELSE "low"]
        ELSE IF acris_owner # <<>>
        THEN [owner_name |-> acris_owner,
              owner_type |-> DetermineOwnerType(acris_owner),
              confidence |->
                  IF zola_owner # <<>> /\ NamesMatch(acris_owner, zola_owner)
                  THEN "medium" ELSE "low"]
        ELSE IF zola_owner # <<>>
        THEN [owner_name |-> zola_owner,
              owner_type |-> DetermineOwnerType(zola_owner),
              confidence |-> "low"]
        ELSE [owner_name |-> Unknown, owner_type |-> "unknown", confidence |-> "low"]

-----------------------------------------------------------------------------
(* The cleanup of the individual owners.  An owner is [name, order]: the    *)
(* name a sequence of characters, order the value of its "order" key.  The  *)
(* other keys of an owner play no part in where the cleanup puts it.        *)

\* Most individual owners in a list
MaxIndividuals == 3

\* order of an owner that has no "order" key
NoOrder == -1

\* x.get("order", 999)
MissingOrderKey == 999

\* "(" in name or "-" in name or ":" in name
NeedsCleaning(name) ==
    Contains(name, <<"(">>) \/ Contains(name, <<"-">>) \/ Contains(name, <<":">>)

\* The clean name the prompt asks the LLM for: the name without its
\* annotations, which is what stands before the first of them
LLMCleanName(name) ==
    LET marks == {i \in 1..Len(name) : name[i] \in {"(", "-", ":"}}
    IN  IF marks = {} THEN name
        ELSE SubSeq(name, 1, (CHOOSE i \in marks : \A j \in marks : i <= j) - 1)

RECURSIVE RemoveParens(_)
\* re.sub(r"\s*\([^)]*\)", "", name) on a name without white space
RemoveParens(name) ==
    IF name = <<>> THEN <<>>
    ELSE LET closes == {j \in 2..Len(name) : name[j] = ")"}
         IN  IF Head(name) = "(" /\ closes # {}
             THEN RemoveParens(SubSeq(name, (CHOOSE j \in closes : \A k \in closes : j <= k) + 1,
                                      Len(name)))
             ELSE <<Head(name)>> \o RemoveParens(Tail(name))

\* re.sub(r"\s*-\s*[^-]*$", "", name) on a name without white space
RemoveDashTail(name) ==
    LET dashes == {i \in 1..Len(name) : name[i] = "-"}
    IN  IF dashes = {} THEN name
        ELSE SubSeq(name, 1, (CHOOSE i \in dashes : \A j \in dashes : j <= i) - 1)

\* The regex cleaning of the fallback of _clean_names_with_llm.  Its first
\* pattern needs a digit in parentheses, which no name of the model has.
RegexCleanName(name) ==
    IF Contains(name, <<"(">>) \/ Contains(name, <<"-">>)
    THEN RemoveDashTail(RemoveParens(name))
    ELSE name

\* _clean_names_with_llm.  names_to_clean is a sequence of
\* [index, owner_data]; oc is what the LLM did: "cleaned" (an entry for
\* every name), "short" (no entry for the last name), "failed" (it raised
\* or gave no JSON, so the regex cleaning is used).
CleanNamesWithLLM(names_to_clean, oc) ==
    [i \in 1..Len(names_to_clean) |->
        LET item == names_to_clean[i]
        IN  [name |-> IF oc = "failed" THEN RegexCleanName(item.owner_data.name)
                      ELSE IF oc = "short" /\ i = Len(names_to_clean)
                      THEN item.owner_data.name
                      ELSE LLMCleanName(item.owner_data.name),
             order |-> item.index]]

\* x.get("order", 999)
OrderKey(x) == IF x.order = NoOrder THEN MissingOrderKey ELSE x.order

RECURSIVE SortByOrder(_)
\* cleaned_owners.sort(key=lambda x: x.get("order", 999)): stable
SortByOrder(q) ==
    IF q = <<>> THEN <<>>
    ELSE LET x == q[Len(q)]
             sorted == SortByOrder(SubSeq(q, 1, Len(q) - 1))
             n == Cardinality({i \in 1..Len(sorted) : OrderKey(sorted[i]) <= OrderKey(x)})
         IN  SubSeq(sorted, 1, n) \o <<x>> \o SubSeq(sorted, n + 1, Len(sorted))

\* _ensure_clean_individual_owners
EnsureCleanIndividualOwners(individual_owners, oc) ==
    LET at(annotated) == SelectSeq([i \in 1..Len(individual_owners) |-> i],
                                   LAMBDA i : NeedsCleaning(individual_owners[i].name) = annotated)
        names_to_clean == [k \in 1..Len(at(TRUE)) |->
                              [index |-> at(TRUE)[k] - 1,
                               owner_data |-> individual_owners[at(TRUE)[k]]]]
        cleaned_owners == [k \in 1..Len(at(FALSE)) |-> individual_owners[at(FALSE)[k]]]
    IN  IF individual_owners = <<>> THEN <<>>
        ELSE IF names_to_clean = <<>> THEN individual_owners
        ELSE SortByOrder(cleaned_owners \o CleanNamesWithLLM(names_to_clean, oc))

-----------------------------------------------------------------------------
(* The phone number refiner.  A phone number is a sequence of characters,  *)
(* a report is [number, contact_name], and a dict is the sequence of its   *)
(* entries in insertion order.                                             *)

\* Most reports the three sources make together
MaxReports == 3

IsDigit(c) == c \in {"0", "1", "2", "3", "4", "5", "6", "7", "8", "9"}

\* A normalization that keeps the phone as it was reported
NormalizePhoneRaw(phone) == phone

\* _normalize_phone: re.sub(r"\D", "", phone), "" for an empty phone
NormalizePhone(phone) == SelectSeq(phone, IsDigit)

\* _format_phone_number: (XXX) XXX-XXXX, or None (<<>>) when the digits are
\* neither 10 nor 11 with a leading 1
FormatPhoneNumber(n) ==
    LET fmt(d) == <<"(">> \o SubSeq(d, 1, 3) \o <<")", " ">> \o SubSeq(d, 4, 6)
                      \o <<"-">> \o SubSeq(d, 7, 10)
    IN  IF Len(n) = 10 THEN fmt(n)
        ELSE IF Len(n) = 11 /\ n[1] = "1" THEN fmt(SubSeq(n, 2, 11))
        ELSE <<>>

\* The reports of a list, each with the name of its source
FromSource(source_name, phone_list) ==
    [i \in 1..Len(phone_list) |->
        [source |-> source_name, number |-> phone_list[i].number,
         contact_name |-> phone_list[i].contact_name]]

Elems(q) == {q[i] : i \in 1..Len(q)}

\* _normalize_phone_data: one entry per normalized number, in order of first
\* report; every further report of the number appends its source
NormalizePhoneData(property_shark_phones, skipgenie_phones, truepeoplesearch_phones) ==
    LET all == FromSource("PropertyShark", property_shark_phones)
                 \o FromSource("SkipGenie", skipgenie_phones)
                 \o FromSource("TruePeopleSearch", truepeoplesearch_phones)
        add(data, r) ==
            LET normalized_number == NormalizePhone(r.number)
                formatted == FormatPhoneNumber(normalized_number)
                formatted_number == IF formatted # <<>> THEN formatted ELSE r.number
            IN  IF normalized_number = <<>> THEN data
                ELSE IF \E j \in 1..Len(data) : data[j].key = normalized_number
                THEN [j \in 1..Len(data) |->
                        IF data[j].key = normalized_number
                        THEN [data[j] EXCEPT
                                !.sources = Append(@, r.source),
                                !.contacts = IF r.contact_name # ""
                                                  /\ r.contact_name \notin Elems(@)
                                             THEN Append(@, r.contact_name) ELSE @]
                        ELSE data[j]]
                ELSE Append(data, [key |-> normalized_number,
                                   number |-> formatted_number,
                                   sources |-> <<r.source>>,
                                   contacts |-> IF r.contact_name # ""
                                                THEN <<r.contact_name>> ELSE <<>>])
        F[i \in 0..Len(all)] == IF i = 0 THEN <<>> ELSE add(F[i-1], all[i])
    IN  F[Len(all)]

\* The confidence _simple_phone_analysis gives to a list of sources
Confidence(sources) ==
    IF Len(sources) > 1
    THEN IF "PropertyShark" \in Elems(sources) THEN "medium-high" ELSE "medium"
    ELSE IF "PropertyShark" \in Elems(sources) THEN "medium" ELSE "low"

\* confidence_order
ConfidenceOrder(c) ==
    CASE c = "high" -> 0 [] c = "medium-high" -> 1 [] c = "medium" -> 2
      [] c = "low" -> 3 [] OTHER -> 4

\* The contact chosen for a number: the first that is an individual owner,
\* else the first, else "Unknown".  The names used differ by more than case.
BestContact(contacts, individual_owners) ==
    LET known == {i \in 1..Len(contacts) : contacts[i] \in Elems(individual_owners)}
    IN  IF known # {} THEN contacts[CHOOSE i \in known : \A j \in known : i <= j]
        ELSE IF contacts # <<>> THEN contacts[1] ELSE "Unknown"

\* The list left in the order of the entries of the dict
SortNot(q) == q

\* list.sort(key=confidence_order): stable
SortByConfidence(q) ==
    LET rank(k) == SelectSeq(q, LAMBDA e : ConfidenceOrder(e.confidence) = k)
    IN  rank(0) \o rank(1) \o rank(2) \o rank(3) \o rank(4)

\* _simple_phone_analysis
SimplePhoneAnalysis(normalized_numbers, individual_owners) ==
    LET refined_phones ==
            SortByConfidence(
                [i \in 1..Len(normalized_numbers) |->
                    [number |-> normalized_numbers[i].number,
                     contact_name |-> BestContact(normalized_numbers[i].contacts,
                                                  individual_owners),
                     confidence |-> Confidence(normalized_numbers[i].sources),
                     sources |-> normalized_numbers[i].sources]])
    IN  [refined_phone_numbers |-> refined_phones,
         primary_phone |-> IF refined_phones # <<>> THEN refined_phones[1].number ELSE <<>>]

-----------------------------------------------------------------------------
(* TwilioNode, the phone validation.  A phone is a sequence of characters,  *)
(* None and "" are both <<>>.                                               *)

\* Most phones the sources other than contact_number report
MaxPhones == 2

NotAvailable == <<"N", "o", "t", " ", "a", "v", "a", "i", "l", "a", "b", "l", "e">>

\* None as a primary phone
NonePhone == [number |-> <<>>, country_code |-> "None"]

\* _clean_phone_number
CleanPhoneNumber(phone) ==
    IF phone = <<>> \/ phone = NotAvailable THEN <<>>
    ELSE LET digits_only == SelectSeq(phone, IsDigit)
         IN  IF Len(digits_only) = 10 THEN <<"+", "1">> \o digits_only
             ELSE IF Len(digits_only) = 11 /\ digits_only[1] = "1" THEN <<"+">> \o digits_only
             ELSE IF Len(digits_only) > 8 THEN <<"+">> \o digits_only
             ELSE <<>>

\* The set all_phones that _extract_all_phones collects from the state
CollectedPhones(state) ==
    (IF state.contact_number # <<>> /\ state.contact_number # NotAvailable
     THEN {state.contact_number} ELSE {})
        \cup state.real_owner_phones
        \cup state.person_phones
        \cup (IF state.company_phone # <<>> THEN {state.company_phone} ELSE {})

\* The orders in which a set can be iterated
IterationOrders(S) == {q \in [1..Cardinality(S) -> S] : \A e \in S : \E i \in 1..Cardinality(S) : q[i] = e}

\* _extract_all_phones, the set iterated in order ord: the cleaned phones
\* without the empty ones
ExtractAllPhones(ord) ==
    SelectSeq([i \in 1..Len(ord) |-> IF ord[i] # <<>> THEN CleanPhoneNumber(ord[i]) ELSE <<>>],
              LAMBDA phone : phone # <<>>)

\* _validate_phones.  results[i] is what verify_phone_number gave for
\* phone i: the country code of a valid number, or "invalid" for a number
\* that is not valid or whose lookup raised (both go to invalid_phones).
ValidatePhones(phone_numbers, results) ==
    LET at(ok) == SelectSeq([i \in 1..Len(phone_numbers) |-> i],
                            LAMBDA i : (results[i] # "invalid") = ok)
    IN  [valid |-> [k \in 1..Len(at(TRUE)) |->
                        [number |-> phone_numbers[at(TRUE)[k]],
                         country_code |-> results[at(TRUE)[k]]]],
         invalid |-> [k \in 1..Len(at(FALSE)) |-> phone_numbers[at(FALSE)[k]]]]

\* A choice of the primary phone that does not look at contact_number
DeterminePrimaryPhoneUSFirst(validation_results, state) ==
    LET valid_phones == validation_results.valid
        us_phones == SelectSeq(valid_phones, LAMBDA p : p.country_code = "US")
    IN  IF valid_phones = <<>> THEN NonePhone
        ELSE IF us_phones # <<>> THEN us_phones[1]
        ELSE valid_phones[1]

\* _determine_primary_phone
DeterminePrimaryPhone(validation_results, state) ==
    LET valid_phones == validation_results.valid
        contact_number == state.contact_number
        contact_number_clean == CleanPhoneNumber(contact_number)
        same == {i \in 1..Len(valid_phones) : valid_phones[i].number = contact_number_clean}
        us_phones == SelectSeq(valid_phones, LAMBDA p : p.country_code = "US")
    IN  IF valid_phones = <<>> THEN NonePhone
        ELSE IF Len(valid_phones) = 1 THEN valid_phones[1]
        ELSE IF contact_number # <<>> /\ contact_number # NotAvailable /\ same # {}
        THEN valid_phones[CHOOSE i \in same : \A j \in same : i <= j]
        ELSE IF us_phones # <<>> THEN us_phones[1]
        ELSE valid_phones[1]

\* oc: "ok" (saved to the local file), "uploaded" (production: uploaded to
\* S3) or "fault" of _save_to_spreadsheet, which lowers owner_type and so
\* always fails while owner_type is None.
FinalizeRun(s, oc) ==
    IF oc \in {"ok", "uploaded"} /\ Get(s, "owner_type", "unknown") # "None"
    THEN Ret([current_step |-> "Finalization completed",
              storage_location |-> IF oc = "uploaded" THEN "S3" ELSE "Local",
              next_steps |-> L(<<>>)])
    ELSE Ret([errors |-> L(<<E("Finalization error")>>),
              current_step |-> "Finalization failed",
              next_steps |-> L(<<>>)])

\* The snapshot a step was called with, as the step leaves it: after an
\* upload _save_to_spreadsheet stores the S3 path in it.
SnapshotAfter(n, s, oc) ==
    IF n = "finalize" /\ oc = "uploaded" /\ Get(s, "owner_type", "unknown") # "None"
    THEN [excel_s3_path |-> "s3_path"] @@ s
    ELSE s

\* Sequences over S of length n
SeqsOf(S, n) == [1..n -> S]

OwnerLists == {SubSeq(OwnerNames, 1, n) : n \in 0..MaxOwners}

\* The outcomes of the lookups step n can see when it runs on snapshot s
Outcomes(n, s) ==
    CASE n = "reonomy_search" -> {"fault"}
      [] n \in {"zola_search", "property_shark_search",
                "process_documents", "search_opencorporates",
                "refine_phone_numbers"} -> {"ok", "fault"}
      [] n = "finalize" -> {"ok", "uploaded", "fault"}
      [] n = "acris_search" -> {"files", "nofiles", "fault"}
      [] n = "analyze_owner" ->
            {[fault |-> TRUE, owner_type |-> "unknown", owners |-> <<>>, flag |-> FALSE]}
            \cup [fault : {FALSE},
                  owner_type : {"LLC", "individual", "unknown"},
                  owners : OwnerLists, flag : BOOLEAN]
      [] n = "search_skipgenie" ->
            IF OwnersNeedType(s) /\ Get(s, "owner_type", "") = "None"
            THEN {[cred |-> TRUE, per |-> <<>>]}
            ELSE [cred : BOOLEAN,
                  per : SeqsOf({"found", "fault"}, Len(OwnersToSearch(s)))]
      [] n = "search_true_people" ->
            IF OwnersNeedType(s) /\ Get(s, "owner_type", "") = "None"
            THEN {[per |-> <<>>]}
            ELSE [per : SeqsOf({"found", "fault"},
                               Len(OwnersToSearch(s)))]
      [] OTHER -> {"ok"}

NodeRun(n, s, oc) ==
    CASE n = "initialize" -> InitializerRun(s)
      [] n = "zola_search" -> ZolaRun(s, oc)
      [] n = "reonomy_search" -> ReonomyRun(s, oc)
      [] n = "acris_search" -> AcrisRun(s, oc)
      [] n = "process_documents" -> DocumentProcessorRun(s, oc)
      [] n = "property_shark_search" -> PropertySharkRun(s, oc)
      [] n = "analyze_owner" -> AnalyzerRun(s, oc)
      [] n = "search_opencorporates" -> OpenCorporatesRun(s, oc)
      [] n = "search_skipgenie" -> SkipGenieRun(s, oc)
      [] n = "search_true_people" -> TruePeopleSearchRun(s, oc)
      [] n = "refine_phone_numbers" -> PhoneNumberRefinerRun(s, oc)
      [] n = "finalize" -> FinalizeRun(s, oc)

-----------------------------------------------------------------------------
(* The record type: one reducer per annotated key.                         *)

\* lambda x, y: x or y
FirstTruthy(x, y) == IF Truthy(x) THEN x ELSE y

\* lambda x, y: y
Latest(x, y) == y

\* A list reducer that keeps the first non-empty list, as lambda x, y: x or y
\* would, instead of concatenating
ListAddKeepFirst(x, y) == IF x.items # <<>> THEN x ELSE L(y.items)

\* operator.add on lists; defined when both operands are lists
ListAdd(x, y) == L(x.items \o y.items)

\* Whether the reducer of key k accepts the update value y
ReducerAccepts(k, y) == k \in {"next_steps", "errors"} => ~y.none

\* Reducers in which errors takes the value of the update, as current_step
ReduceErrorsLatest(k, x, y) ==
    CASE k \in {"address", "zola_owner_name"} -> FirstTruthy(x, y)
      [] k \in {"current_step", "errors"} -> Latest(x, y)
      [] k = "next_steps" -> ListAdd(x, y)

Reduce(k, x, y) ==
    CASE k \in {"address", "zola_owner_name"} -> FirstTruthy(x, y)
      [] k = "current_step" -> Latest(x, y)
      [] k \in {"next_steps", "errors"} -> ListAdd(x, y)

\* The record after the update u of one step: keys outside the record type
\* are dropped, a reducer key is reduced, any other key takes the value.
MergeOne(s, u) ==
    [k \in DOMAIN s \cup (DOMAIN u \cap SchemaKeys) |->
        IF k \notin DOMAIN u THEN s[k]
        ELSE IF k \in ReducerKeys THEN Reduce(k, s[k], u[k])
        ELSE u[k]]

\* The steps in the order in which the engine applies the updates of one
\* superstep (by step name)
TaskOrder ==
    <<"acris_search", "analyze_owner", "finalize", "initialize",
      "process_documents", "property_shark_search", "refine_phone_numbers",
      "reonomy_search", "search_opencorporates", "search_skipgenie",
      "search_true_people", "zola_search">>

\* The keys without reducer of an update, with their values
PlainPart(u) == [k \in DOMAIN u \cap PlainKeys |-> u[k]]

\* The updates ups of a superstep applied to s in TaskOrder
ApplyUpdates(s, ups) ==
    LET F[i \in 0..Len(TaskOrder)] ==
            IF i = 0 THEN s
            ELSE IF TaskOrder[i] \in DOMAIN ups
                 THEN MergeOne(F[i-1], ups[TaskOrder[i]]) ELSE F[i-1]
    IN  F[Len(TaskOrder)]

\* A key without reducer that several steps of the superstep wrote holds
\* the value of the step that returned last: the record reflects the order
\* in which the branches completed.
KeepLastWritten(m, last) ==
    [k \in DOMAIN m |-> IF k \in DOMAIN last THEN last[k] ELSE m[k]]

\* The record at the end of a superstep
MergeAll(s, ups, last) == KeepLastWritten(ApplyUpdates(s, ups), last)

\* Two steps of one superstep wrote the same key that has no reducer
Conflict(ups) ==
    \E k \in PlainKeys : \E n1, n2 \in DOMAIN ups :
        n1 # n2 /\ k \in DOMAIN ups[n1] /\ k \in DOMAIN ups[n2]

\* Some reducer is handed a value it cannot take
ReducerFault(ups) ==
    \E n \in DOMAIN ups : \E k \in ReducerKeys \cap DOMAIN ups[n] :
        ~ReducerAccepts(k, ups[n][k])

-----------------------------------------------------------------------------
(* The graph of _build_workflow.                                           *)

\* _has_documents without the test of the files list
HasDocumentsAnyResult(s) == Truthy(Get(s, "acris_property_records", "None"))

\* _has_documents
HasDocuments(s) == Get(s, "acris_property_records", "None") = "files"

\* The condition on the edges leaving analyze_owner raises when owner_type
\* is None and has_individual_owners is false.
AnalyzeConditionRaises(s) ==
    ~Get(s, "has_individual_owners", FALSE) /\ Get(s, "owner_type", "") = "None"

AnalyzeCondition(s) ==
    ~Get(s, "has_individual_owners", FALSE) /\ Lower(Get(s, "owner_type", "")) = "llc"

\* The steps triggered when step n has completed; s is the snapshot of n
\* with the update of n applied
Targets(n, s) ==
    CASE n = "initialize" ->
            {"zola_search", "reonomy_search", "acris_search", "property_shark_search"}
      [] n = "acris_search" ->
            IF HasDocuments(s) THEN {"process_documents"} ELSE {"analyze_owner"}
      [] n \in {"zola_search", "property_shark_search", "process_documents"} ->
            {"analyze_owner"}
      [] n = "analyze_owner" ->
            IF AnalyzeCondition(s) THEN {"search_opencorporates"} ELSE {"search_skipgenie"}
      [] n = "search_opencorporates" -> {"search_skipgenie"}
      [] n = "search_skipgenie" -> {"search_true_people"}
      [] n = "search_true_people" -> {"refine_phone_numbers"}
      [] n = "refine_phone_numbers" -> {"finalize"}
      [] OTHER -> {}

\* The errors entries of the lookups that raised inside step n, in order
PerOwnerFaults(owners, per, m) ==
    LET F[i \in 0..Len(owners)] ==
            IF i = 0 THEN <<>>
            ELSE IF per[i] = "fault" THEN Append(F[i-1], EO(m, owners[i])) ELSE F[i-1]
    IN  F[Len(owners)]

LookupFaults(n, s, oc) ==
    CASE n = "zola_search" /\ oc = "fault" -> <<E("ZoLa search error")>>
      [] n = "reonomy_search" /\ oc = "fault" -> <<E("Reonomy search error")>>
      [] n = "acris_search" /\ oc = "fault" -> <<E("ACRIS search error")>>
      [] n = "property_shark_search" /\ oc = "fault" -> <<E("PropertyShark search error")>>
      [] n = "process_documents" /\ oc = "fault"
            /\ Truthy(Get(s, "acris_results", "None")) -> <<E("Document processing error")>>
      [] n = "search_opencorporates" /\ oc = "fault"
            /\ Truthy(Get(s, "owner_name", "None")) -> <<E("OpenCorporates search error")>>
      [] n = "search_skipgenie" /\ NodeRun(n, s, oc).kind = "ret" /\ oc.cred ->
            PerOwnerFaults(OwnersToSearch(s), oc.per, "Error searching SkipGenie for")
      [] n = "search_true_people" /\ NodeRun(n, s, oc).kind = "ret" ->
            PerOwnerFaults(OwnersToSearch(s), oc.per, "Error searching TruePeopleSearch for")
      [] OTHER -> <<>>

\* The errors entries of all exceptions caught inside step n: those of its
\* lookups, and those of the analysis, the refinement and the spreadsheet
StepFaults(n, s, oc) ==
    CASE n = "analyze_owner" /\ oc.fault -> <<E("Analysis error")>>
      [] n = "refine_phone_numbers"
            /\ NodeRun(n, s, oc).upd["current_step"] = "Phone number refinement error" ->
            <<E("Phone number refinement error")>>
      [] n = "finalize" /\ NodeRun(n, s, oc).upd["current_step"] = "Finalization failed" ->
            <<E("Finalization error")>>
      [] OTHER -> LookupFaults(n, s, oc)

\* The bag of the entries of a sequence
BagOf(q) ==
    [e \in {q[i] : i \in 1..Len(q)} |-> Cardinality({i \in 1..Len(q) : q[i] = e})]

-----------------------------------------------------------------------------
(* One run of PropertyResearchGraph.run on the compiled graph.             *)

VARIABLES
    address,    \* self.address
    status,     \* "idle", "running", "finished" (invoke is done), "returned", "raised"
    exc,        \* the exception run raised
    failed,     \* the step in which it was raised ("-": outside the steps)
    rec,        \* the record held by the engine
    running,    \* steps of the current superstep that have not returned
    done,       \* steps of the current superstep that have returned
    ups,        \* the update each of them returned
    last,       \* per key without reducer, the value written last in this superstep
    sched,      \* steps triggered for the next superstep
    started,    \* per step, how many executions have started
    finished,   \* per step, how many executions have returned
    raisedIn,   \* per step of done, the lookups that raised in it
    faults,     \* bag of all lookups that raised in this run
    phase,      \* of the refiner: "off", "reported", "normalized", "analysed"
    phones,     \* the phone lists of the three sources
    normalized_numbers,     \* what _normalize_phone_data returned for them
    analysis,   \* what _simple_phone_analysis returned for that
    owner_data, \* the owner names the three sources give the extraction
    extraction, \* what _fallback_extraction returned for them
    twilio_pc,  \* of TwilioNode.run: "off", "called", "extracted", "validated", "returned"
    twilio_state,       \* the phones of the state it was called with
    all_phones,         \* what _extract_all_phones returned
    validation_results, \* what _validate_phones returned
    primary_phone,      \* what _determine_primary_phone returned
    jobs,       \* the jobs of the API, by job id
    tasks,      \* per job, where its background task process_addresses is
    mongodb,    \* what save_job_to_mongodb does
    cleanup_pc, \* of the owner cleanup: "off", "called", "returned"
    individual_owners,  \* the list _ensure_clean_individual_owners was called with
    cleaned_owners,     \* the list it returned
    cli,        \* of run.py: "off", "started", "processing", "returned"
    args,       \* its arguments
    sheet,      \* the addresses that have a row in results/property_owners.xlsx
    already_processed,  \* what check_existing_addresses returned
    to_process,
    results,    \* the addresses graph.run was called for, in order
    graph_address,      \* the address of the graph object of the API
    server,     \* the process of the API: "off", "up", "down"
    runs,       \* how many runs the compiled graph has started (0: not counted)
    sg_pc,      \* of SkipGenieNode.run: "off", "searching", "returned", "exited"
    sg_owners,  \* how many individual owners it searches for
    sg_owner,   \* the owner it is searching for
    sg_request, \* the request under way: 1, 2 of login, 3, 4 of search
    sg_attempt, \* how many attempts of that request have failed
    sg_found,   \* per owner searched, whether a contact was found
    environment,        \* ENVIRONMENT: "off", "development", "production"
    spreadsheet,        \* the rows of property_owners.xlsx where that environment keeps it
    saved       \* the last execution of _save_to_spreadsheet

\* The variables of the refiner
pvars == <<phase, phones, normalized_numbers, analysis>>

\* The variables of the owner extraction
ovars == <<owner_data, extraction>>

\* The variables of a run of the graph
gvars == <<address, status, exc, failed, rec, running, done, ups, last, sched,
           started, finished, raisedIn, faults>>

\* The variables of the phone validation
tvars == <<twilio_pc, twilio_state, all_phones, validation_results, primary_phone>>

\* The variables of the API
jvars == <<jobs, tasks, mongodb, graph_address, server>>

\* The variables of the owner cleanup
cvars == <<cleanup_pc, individual_owners, cleaned_owners>>

\* The variables of the command line
rvars == <<cli, args, sheet, already_processed, to_process, results>>

\* The variables of the SkipGenie search
hvars == <<sg_pc, sg_owners, sg_owner, sg_request, sg_attempt, sg_found>>

\* The variables of the spreadsheet
xvars == <<environment, spreadsheet, saved>>

vars == <<gvars, pvars, ovars, tvars, jvars, cvars, rvars, hvars, xvars, runs>>

OutsideGraph == <<pvars, ovars, tvars, jvars, cvars, rvars, hvars, xvars, runs>>
OutsidePhone == <<gvars, ovars, tvars, jvars, cvars, rvars, hvars, xvars, runs>>
OutsideOwner == <<gvars, pvars, tvars, jvars, cvars, rvars, hvars, xvars, runs>>
OutsideTwilio == <<gvars, pvars, ovars, jvars, cvars, rvars, hvars, xvars, runs>>
OutsideJobs == <<gvars, pvars, ovars, tvars, cvars, rvars, hvars, xvars, runs>>
OutsideCleanup == <<gvars, pvars, ovars, tvars, jvars, rvars, hvars, xvars, runs>>
OutsideCli == <<gvars, pvars, ovars, tvars, jvars, cvars, hvars, xvars, runs>>
OutsideSkip == <<gvars, pvars, ovars, tvars, jvars, cvars, rvars, xvars, runs>>
OutsideSheet == <<gvars, pvars, ovars, tvars, jvars, cvars, rvars, hvars, runs>>
OutsideRuns == <<pvars, ovars, tvars, jvars, cvars, rvars, hvars, xvars>>

NoPhones == [property_shark |-> <<>>, skipgenie |-> <<>>, truepeoplesearch |-> <<>>]

NoAnalysis == [refined_phone_numbers |-> <<>>, primary_phone |-> <<>>]

NoOwnerData == [ps_owner |-> <<>>, property_ownership_records |-> <<>>, zola_owner |-> <<>>]

NoExtraction == [owner_name |-> <<>>, owner_type |-> "", confidence |-> ""]

\* No run of the graph is under way
GraphOff ==
    /\ address = ""
    /\ status = "off"
    /\ exc = "-"
    /\ failed = "-"
    /\ rec = [address |-> address]
    /\ running = {}
    /\ done = {}
    /\ ups = <<>>
    /\ last = <<>>
    /\ sched = {}
    /\ started = [n \in Nodes |-> 0]
    /\ finished = [n \in Nodes |-> 0]
    /\ raisedIn = <<>>
    /\ faults = EmptyBag

\* The refiner is not under way
PhoneOff ==
    /\ phase = "off"
    /\ phones = NoPhones
    /\ normalized_numbers = <<>>
    /\ analysis = NoAnalysis

\* The owner extraction is not under way
OwnerOff ==
    /\ owner_data = NoOwnerData
    /\ extraction = NoExtraction

NoTwilioState == [contact_number |-> <<>>, real_owner_phones |-> {},
                  person_phones |-> {}, company_phone |-> <<>>]

NoValidation == [valid |-> <<>>, invalid |-> <<>>]

\* The phone validation is not under way
TwilioOff ==
    /\ twilio_pc = "off"
    /\ twilio_state = NoTwilioState
    /\ all_phones = <<>>
    /\ validation_results = NoValidation
    /\ primary_phone = NonePhone

\* The API is not up
JobsOff ==
    /\ jobs = <<>>
    /\ tasks = <<>>
    /\ mongodb = "off"
    /\ graph_address = <<>>
    /\ server = "off"

\* The owner cleanup is not under way
CleanupOff ==
    /\ cleanup_pc = "off"
    /\ individual_owners = <<>>
    /\ cleaned_owners = <<>>

NoArgs == [force |-> FALSE, addresses |-> <<>>]

\* The command line is not in use
CliOff ==
    /\ cli = "off"
    /\ args = NoArgs
    /\ sheet = {}
    /\ already_processed = <<>>
    /\ to_process = <<>>
    /\ results = <<>>

\* The SkipGenie search is not under way
SkipOff ==
    /\ sg_pc = "off"
    /\ sg_owners = 0
    /\ sg_owner = 0
    /\ sg_request = 0
    /\ sg_attempt = 0
    /\ sg_found = <<>>

NoSave == [address |-> "", data |-> "", stored |-> FALSE]

\* No spreadsheet is kept
SheetOff ==
    /\ environment = "off"
    /\ spreadsheet = <<>>
    /\ saved = NoSave

\* The runs of the compiled graph are not counted
RunsOff == runs = 0

\* Nothing but the research graph, the refiner and the owner extraction
RestOff == TwilioOff /\ JobsOff /\ CleanupOff /\ CliOff /\ SkipOff /\ SheetOff /\ RunsOff


Addresses == {"", "798 LEXINGTON AVENUE, New York, NY"}

Init ==
    /\ address \in Addresses
    /\ status = "idle"
    /\ exc = "-"
    /\ failed = "-"
    /\ rec = [address |-> address]
    /\ running = {}
    /\ done = {}
    /\ ups = <<>>
    /\ last = <<>>
    /\ sched = {}
    /\ started = [n \in Nodes |-> 0]
    /\ finished = [n \in Nodes |-> 0]
    /\ raisedIn = <<>>
    /\ faults = EmptyBag
    /\ PhoneOff
    /\ OwnerOff
    /\ RestOff

\* run, up to the ValueError for a missing address
RunNoAddress ==
    /\ status = "idle"
    /\ address = ""
    /\ status' = "raised"
    /\ exc' = "ValueError"
    /\ UNCHANGED OutsideGraph
    /\ UNCHANGED <<address, failed, rec, running, done, ups, last, sched, started, finished,
                   raisedIn, faults>>

\* run without the test of self.address
RunInvokeUnchecked ==
    /\ status = "idle"
    /\ status' = "running"
    /\ rec' = InitialState(address)
    /\ running' = {"initialize"}
    /\ started' = [started EXCEPT !["initialize"] = 1]
    /\ UNCHANGED OutsideGraph
    /\ UNCHANGED <<address, exc, failed, done, ups, last, sched, finished, raisedIn, faults>>

\* run that invokes the graph on the record the call before left, with the
\* new address
RunInvokeOnLast ==
    /\ status = "idle"
    /\ address # ""
    /\ status' = "running"
    /\ rec' = [k \in DOMAIN InitialState(address) |->
                  IF k \in DOMAIN rec /\ k # "address"
                  THEN rec[k] ELSE InitialState(address)[k]]
    /\ running' = {"initialize"}
    /\ started' = [started EXCEPT !["initialize"] = 1]
    /\ UNCHANGED OutsideGraph
    /\ UNCHANGED <<address, exc, failed, done, ups, last, sched, finished, raisedIn, faults>>

\* run, up to app.invoke(state): START -> initialize
RunInvoke ==
    /\ status = "idle"
    /\ address # ""
    /\ status' = "running"
    /\ rec' = InitialState(address)
    /\ running' = {"initialize"}
    /\ started' = [started EXCEPT !["initialize"] = 1]
    /\ UNCHANGED OutsideGraph
    /\ UNCHANGED <<address, exc, failed, done, ups, last, sched, finished, raisedIn, faults>>

\* Step n of the current superstep runs on the record and returns; its
\* outgoing edges are evaluated on the record with its own update applied.
\* An exception leaving the step or an edge condition leaves invoke and run.
Step(n) ==
    /\ status = "running"
    /\ n \in running
    /\ \E oc \in Outcomes(n, rec) :
          LET r == NodeRun(n, rec, oc)
              local == MergeOne(rec, r.upd)
              returned == r.kind = "ret"
              routed == returned /\ ~(n = "analyze_owner" /\ AnalyzeConditionRaises(local))
          IN  /\ status' = IF routed THEN status ELSE "raised"
              /\ exc' = IF routed THEN exc ELSE "AttributeError"
              /\ failed' = IF routed THEN failed ELSE n
              /\ ups' = IF returned THEN (n :> r.upd) @@ ups ELSE ups
              /\ raisedIn' = IF returned THEN (n :> LookupFaults(n, rec, oc)) @@ raisedIn
                             ELSE raisedIn
              /\ faults' = IF returned THEN faults (+) BagOf(StepFaults(n, rec, oc))
                           ELSE faults
              /\ running' = IF routed THEN running \ {n} ELSE running
              /\ done' = IF routed THEN done \cup {n} ELSE done
              /\ last' = IF routed THEN PlainPart(r.upd) @@ last ELSE last
              /\ sched' = IF routed THEN sched \cup Targets(n, local) ELSE sched
              /\ finished' = IF routed THEN [finished EXCEPT ![n] = @ + 1] ELSE finished
    /\ UNCHANGED OutsideGraph
    /\ UNCHANGED <<address, rec, started>>

Initialize == Step("initialize")
ZolaSearch == Step("zola_search")
ReonomySearch == Step("reonomy_search")
AcrisSearch == Step("acris_search")
PropertySharkSearch == Step("property_shark_search")
ProcessDocuments == Step("process_documents")
AnalyzeOwner == Step("analyze_owner")
SearchOpenCorporates == Step("search_opencorporates")
SearchSkipGenie == Step("search_skipgenie")
SearchTruePeople == Step("search_true_people")
RefinePhoneNumbers == Step("refine_phone_numbers")
Finalize == Step("finalize")

SuperstepOver == status = "running" /\ running = {} /\ done # {}

\* End of a superstep: the updates are merged and the triggered steps start;
\* with none triggered, invoke is done.  The engine is the langgraph
\* package, whose sources are not part of the repository.  When two steps of
\* the superstep wrote the same key without reducer langgraph rejects the
\* superstep (RejectConcurrentUpdate); the run is also followed through an
\* engine that serialises the merges and keeps the value written last
\* (KeepLastWritten), which is the only way past the four initial lookups.
ApplyWrites ==
    /\ SuperstepOver
    /\ ~ReducerFault(ups)
    /\ rec' = MergeAll(rec, ups, last)
    /\ running' = sched
    /\ started' = [n \in Nodes |-> IF n \in sched THEN started[n] + 1 ELSE started[n]]
    /\ status' = IF sched = {} THEN "finished" ELSE "running"
    /\ done' = {}
    /\ ups' = <<>>
    /\ last' = <<>>
    /\ raisedIn' = <<>>
    /\ sched' = {}
    /\ UNCHANGED OutsideGraph
    /\ UNCHANGED <<address, exc, failed, finished, faults>>

\* InvalidUpdateError: a key without reducer can receive one value per step
RejectConcurrentUpdate ==
    /\ SuperstepOver
    /\ Conflict(ups)
    /\ status' = "raised"
    /\ exc' = "InvalidUpdateError"
    /\ UNCHANGED OutsideGraph
    /\ UNCHANGED <<address, failed, rec, running, done, ups, last, sched, started, finished,
                   raisedIn, faults>>

\* TypeError of operator.add on a value that is not a list
RejectReducerValue ==
    /\ SuperstepOver
    /\ ReducerFault(ups)
    /\ status' = "raised"
    /\ exc' = "TypeError"
    /\ UNCHANGED OutsideGraph
    /\ UNCHANGED <<address, failed, rec, running, done, ups, last, sched, started, finished,
                   raisedIn, faults>>

\* run, after app.invoke(state)
RunReturn ==
    /\ status = "finished"
    /\ status' = "returned"
    /\ rec' = [rec EXCEPT !["current_step"] = "workflow completed",
                          !["next_steps"] = L(<<>>)]
    /\ UNCHANGED OutsideGraph
    /\ UNCHANGED <<address, exc, failed, running, done, ups, last, sched, started, finished,
                   raisedIn, faults>>

Next ==
    \/ RunNoAddress
    \/ RunInvoke
    \/ Initialize
    \/ ZolaSearch
    \/ ReonomySearch
    \/ AcrisSearch
    \/ PropertySharkSearch
    \/ ProcessDocuments
    \/ AnalyzeOwner
    \/ SearchOpenCorporates
    \/ SearchSkipGenie
    \/ SearchTruePeople
    \/ RefinePhoneNumbers
    \/ Finalize
    \/ ApplyWrites
    \/ RejectConcurrentUpdate
    \/ RejectReducerValue
    \/ RunReturn

Spec == Init /\ [][Next]_vars

-----------------------------------------------------------------------------
(* The refiner on its own: _normalize_phone_data and _simple_phone_analysis *)
(* applied to the phone lists of the three sources.                        *)

TenDigits == <<"2", "1", "2", "5", "5", "5", "0", "1", "0", "0">>

\* The same number with the country code 1 in front
ElevenDigits == <<"1">> \o TenDigits

\* Numbers as the sources report them: none, without digits, the same digits
\* in two formats, other digits, and a number that can be formatted, without
\* and with the country code
RawNumbers == {<<>>, <<"-">>, <<"5">>, <<"5", "-">>, <<"7">>, TenDigits, ElevenDigits}

ContactNames == {"JOHN DOE", "JANE ROE"}

\* The individual owners the analysis is given
IndividualOwners == <<"JOHN DOE">>

Reports == [number : RawNumbers, contact_name : ContactNames]

PhoneLists ==
    UNION {[property_shark : SeqsOf(Reports, t[1]), skipgenie : SeqsOf(Reports, t[2]),
            truepeoplesearch : SeqsOf(Reports, t[3])] :
           t \in {u \in (0..MaxReports) \X (0..MaxReports) \X (0..MaxReports) :
                    u[1] + u[2] + u[3] <= MaxReports}}

PhoneInit ==
    /\ GraphOff
    /\ OwnerOff
    /\ RestOff
    /\ phase = "reported"
    /\ phones \in PhoneLists
    /\ normalized_numbers = <<>>
    /\ analysis = NoAnalysis

\* _analyze_phone_numbers, up to the call of _normalize_phone_data
CallNormalizePhoneData ==
    /\ phase = "reported"
    /\ phase' = "normalized"
    /\ normalized_numbers' = NormalizePhoneData(phones.property_shark, phones.skipgenie,
                                                phones.truepeoplesearch)
    /\ UNCHANGED <<phones, analysis>>
    /\ UNCHANGED OutsidePhone

\* _analyze_phone_numbers, the call of _simple_phone_analysis
CallSimplePhoneAnalysis ==
    /\ phase = "normalized"
    /\ Len(normalized_numbers) <= 3
    /\ phase' = "analysed"
    /\ analysis' = SimplePhoneAnalysis(normalized_numbers, IndividualOwners)
    /\ UNCHANGED <<phones, normalized_numbers>>
    /\ UNCHANGED OutsidePhone

PhoneNext ==
    \/ CallNormalizePhoneData
    \/ CallSimplePhoneAnalysis

PhoneSpec == PhoneInit /\ [][PhoneNext]_vars

-----------------------------------------------------------------------------
(* The rule-based owner extraction on its own: _fallback_extraction        *)
(* applied to the owner names of PropertyShark, the documents and ZoLa.    *)

AcmeLLC == <<"A", "C", "M", "E", " ", "L", "L", "C">>
AcmeCommaLLC == <<"A", "c", "m", "e", ",", " ", "L", "L", "C">>
JohnSmith == <<"J", "O", "H", "N", " ", "S", "M", "I", "T", "H">>
JohnSmithJr == <<"J", "O", "H", "N", " ", "S", "M", "I", "T", "H", " ", "J", "R">>
Smith == <<"S", "M", "I", "T", "H">>

\* Names as the sources give them: none, a company in two spellings, a
\* person, the person with a suffix, and a short name
EntityNames == {<<>>, AcmeLLC, AcmeCommaLLC, JohnSmith, JohnSmithJr, Smith}

OwnerInputs ==
    [ps_owner : EntityNames,
     property_ownership_records :
         UNION {SeqsOf([entity_owner : EntityNames], n) : n \in 0..MaxRecords},
     zola_owner : EntityNames]

FallbackInit ==
    /\ GraphOff
    /\ PhoneOff
    /\ RestOff
    /\ owner_data \in OwnerInputs
    /\ extraction = NoExtraction

\* _analyze_property_data, the call of _fallback_extraction
CallFallbackExtraction ==
    /\ extraction = NoExtraction
    /\ extraction' = FallbackExtraction(owner_data.ps_owner,
                                        owner_data.property_ownership_records,
                                        owner_data.zola_owner)
    /\ UNCHANGED owner_data
    /\ UNCHANGED OutsideOwner

FallbackNext == CallFallbackExtraction

FallbackSpec == FallbackInit /\ [][FallbackNext]_vars

-----------------------------------------------------------------------------
(* TwilioNode.run on a state whose phones are drawn from a few numbers.     *)

\* 212-555-0100, as the analyzer formats a contact number
DashedNumber == <<"2", "1", "2", "-", "5", "5", "5", "-", "0", "1", "0", "0">>

OtherTenDigits == <<"6", "4", "6", "5", "5", "5", "0", "1", "9", "9">>

NineDigits == <<"4", "4", "2", "0", "7", "9", "4", "6", "0">>

ShortNumber == <<"5", "5", "5">>

TwilioStates ==
    {st \in [contact_number : {<<>>, NotAvailable, DashedNumber, NineDigits},
             real_owner_phones : SUBSET {TenDigits, OtherTenDigits},
             person_phones : SUBSET {ElevenDigits, ShortNumber},
             company_phone : {<<>>, OtherTenDigits, NineDigits}] :
        Cardinality(st.real_owner_phones) + Cardinality(st.person_phones)
            + (IF st.company_phone # <<>> THEN 1 ELSE 0) <= MaxPhones}

TwilioInit ==
    /\ GraphOff
    /\ PhoneOff
    /\ OwnerOff
    /\ SkipOff
    /\ SheetOff
    /\ RunsOff
    /\ JobsOff
    /\ CleanupOff
    /\ CliOff
    /\ twilio_pc = "called"
    /\ twilio_state \in TwilioStates
    /\ all_phones = <<>>
    /\ validation_results = NoValidation
    /\ primary_phone = NonePhone

\* run up to the call of _validate_phones: _extract_all_phones, and the
\* return when it found no phone
CallExtractAllPhones ==
    /\ twilio_pc = "called"
    /\ \E ord \in IterationOrders(CollectedPhones(twilio_state)) :
          /\ all_phones' = ExtractAllPhones(ord)
          /\ twilio_pc' = IF ExtractAllPhones(ord) = <<>> THEN "returned" ELSE "extracted"
    /\ UNCHANGED <<twilio_state, validation_results, primary_phone>>
    /\ UNCHANGED OutsideTwilio

\* run, the call of _validate_phones
CallValidatePhones ==
    /\ twilio_pc = "extracted"
    /\ \E res \in [1..Len(all_phones) -> {"US", "GB", "invalid"}] :
          validation_results' = ValidatePhones(all_phones, res)
    /\ twilio_pc' = "validated"
    /\ UNCHANGED <<twilio_state, all_phones, primary_phone>>
    /\ UNCHANGED OutsideTwilio

\* run, the call of _determine_primary_phone and the return
CallDeterminePrimaryPhone ==
    /\ twilio_pc = "validated"
    /\ primary_phone' = DeterminePrimaryPhone(validation_results, twilio_state)
    /\ twilio_pc' = "returned"
    /\ UNCHANGED <<twilio_state, all_phones, validation_results>>
    /\ UNCHANGED OutsideTwilio

TwilioNext == CallExtractAllPhones \/ CallValidatePhones \/ CallDeterminePrimaryPhone

TwilioSpec == TwilioInit /\ [][TwilioNext]_vars

-----------------------------------------------------------------------------
(* The API of src/application.py: start_research creates a job and hands    *)
(* process_addresses to the background tasks, which calls process_address   *)
(* for one address after the other.                                         *)

\* Most jobs that are started
MaxJobs == 2

\* Most addresses of a job (MAX_ADDRESSES is 10 by default)
MaxAddresses == 2

JobIds == 1..MaxJobs

\* The i-th address of the request that started the job: every entry of
\* every job has an address of its own
AddressOf(job_id, i) == <<job_id, i>>

\* AddressResult(address=addr).  owner_name stands for the owner data of
\* the entry, which the model names by the address of the record they were
\* taken from; None is <<>>.
NewResult(addr) == [address |-> addr, owner_name |-> <<>>, completed |-> FALSE, errors |-> <<>>]

\* What the first line of save_job_to_mongodb, "if not ENABLE_MONGODB or
\* not db: return", and the rest of it do: "disabled" (it returns),
\* "saves" (the job is written, or writing fails and the error is logged),
\* "raises" (ENABLE_MONGODB is set and the truth test of the database
\* object raises NotImplementedError)
MongoModes == {"disabled", "saves", "raises"}

\* A run that keeps the address the graph object has, when it has one
RunAddressKept(self_address, addr) == IF self_address # <<>> THEN self_address ELSE addr

\* PropertyResearchGraph.run(address): the address of the record of the
\* run, which is self.address after set_address
RunAddress(self_address, addr) == IF addr # <<>> THEN addr ELSE self_address

JobsInit ==
    /\ GraphOff
    /\ PhoneOff
    /\ OwnerOff
    /\ SkipOff
    /\ SheetOff
    /\ RunsOff
    /\ TwilioOff
    /\ CleanupOff
    /\ CliOff
    /\ jobs = <<>>
    /\ tasks = <<>>
    /\ mongodb \in MongoModes
    /\ graph_address = <<>>
    /\ server = "up"

\* start_research for a request with n addresses: the job is stored as
\* pending and saved, then the background task is added
StartResearch(job_id, n) ==
    /\ server = "up"
    /\ job_id \notin DOMAIN jobs
    /\ jobs' = (job_id :> [status |-> "pending",
                           total_addresses |-> n,
                           completed_addresses |-> 0,
                           results |-> [i \in 1..n |-> NewResult(AddressOf(job_id, i))]]) @@ jobs
    /\ tasks' = (job_id :> IF mongodb = "raises"
                           THEN [at |-> "none", index |-> 0]
                           ELSE [at |-> "ready", index |-> 0]) @@ tasks
    /\ UNCHANGED <<mongodb, graph_address, server>>
    /\ UNCHANGED OutsideJobs

\* process_address up to the call of graph.run
ProcessAddressBegin(job_id) ==
    /\ server = "up"
    /\ job_id \in DOMAIN tasks
    /\ tasks[job_id].at = "ready"
    /\ jobs' = [jobs EXCEPT ![job_id].status = "processing"]
    /\ tasks' = [tasks EXCEPT ![job_id].at = "running"]
    /\ UNCHANGED <<mongodb, graph_address, server>>
    /\ UNCHANGED OutsideJobs

\* A job counted as completed as soon as one address is
StatusAfterFirstAddress(job, completed_addresses) ==
    IF completed_addresses >= 1 THEN "completed" ELSE job.status

\* process_address, "if job.completed_addresses == job.total_addresses"
StatusAfterAddress(job, completed_addresses) ==
    IF completed_addresses = job.total_addresses THEN "completed" ELSE job.status

\* process_address from the call of graph.run on, and what
\* process_addresses does after it.  graph.run, on the one graph object of
\* the module, returns the record of the run (oc = "ok"), raises an
\* exception (oc = "error") or ends with SystemExit (oc = "exit": the exit
\* of the HTTP client, which no handler here catches and which ends the
\* process).  After an address process_addresses sleeps before the next,
\* ends after the last, and marks the job failed when process_address
\* raised.
ProcessAddressEnd(job_id, oc) ==
    /\ server = "up"
    /\ job_id \in DOMAIN tasks
    /\ tasks[job_id].at = "running"
    /\ LET job == jobs[job_id]
           index == tasks[job_id].index
           record_address == RunAddress(graph_address, job.results[index + 1].address)
           completed_addresses == job.completed_addresses + 1
           processed ==
               [job EXCEPT
                   !.results[index + 1] =
                       [address |-> @.address,
                        owner_name |-> IF oc = "ok" THEN record_address ELSE @.owner_name,
                        completed |-> TRUE,
                        errors |-> IF oc = "ok" THEN <<>> ELSE <<"Processing error">>],
                   !.completed_addresses = completed_addresses,
                   !.status = StatusAfterAddress(job, completed_addresses)]
       IN  /\ graph_address' = record_address
           /\ IF oc = "exit"
              THEN /\ server' = "down"
                   /\ UNCHANGED <<jobs, tasks>>
              ELSE /\ UNCHANGED server
                   /\ IF mongodb = "raises"
                      THEN /\ jobs' = [jobs EXCEPT ![job_id] =
                                          [processed EXCEPT !.status = "failed"]]
                           /\ tasks' = [tasks EXCEPT ![job_id].at = "done"]
                      ELSE /\ jobs' = [jobs EXCEPT ![job_id] = processed]
                           /\ tasks' = [tasks EXCEPT ![job_id].at =
                                           IF index < job.total_addresses - 1
                                           THEN "sleeping" ELSE "done"]
    /\ UNCHANGED mongodb
    /\ UNCHANGED OutsideJobs

\* process_addresses: asyncio.sleep(PROCESSING_DELAY) is over
Sleep(job_id) ==
    /\ server = "up"
    /\ job_id \in DOMAIN tasks
    /\ tasks[job_id].at = "sleeping"
    /\ tasks' = [tasks EXCEPT ![job_id] = [at |-> "ready", index |-> @.index + 1]]
    /\ UNCHANGED <<jobs, mongodb, graph_address, server>>
    /\ UNCHANGED OutsideJobs

JobsNext ==
    \/ \E job_id \in JobIds, n \in 1..MaxAddresses : StartResearch(job_id, n)
    \/ \E job_id \in JobIds : ProcessAddressBegin(job_id)
    \/ \E job_id \in JobIds, oc \in {"ok", "error", "exit"} : ProcessAddressEnd(job_id, oc)
    \/ \E job_id \in JobIds : Sleep(job_id)

JobsSpec == JobsInit /\ [][JobsNext]_vars

-----------------------------------------------------------------------------
(* _ensure_clean_individual_owners on lists of owners with different first  *)
(* letters, some of them annotated.                                         *)

FirstLetters == {"A", "B", "C", "D"}

\* A name as the sources give it: plain, or with one of the annotations
\* that the first pass looks for
Annotated(letter, how) ==
    CASE how = "plain" -> <<letter>>
      [] how = "parens" -> <<letter, "(", "x", ")">>
      [] how = "dash" -> <<letter, "-", "x">>
      [] how = "colon" -> <<letter, ":">>

\* The lists of n owners.  acris < 0: the list of the LLM analysis, whose
\* owners have no "order" key; otherwise the list of _fallback_extraction,
\* whose first acris owners are those of ACRIS and the others those of
\* PropertyShark, each source numbered from 1.
OwnerListsOf(n) ==
    {[i \in 1..n |->
         [name |-> Annotated(letters[i], how[i]),
          order |-> IF acris < 0 THEN NoOrder
                    ELSE IF i <= acris THEN i ELSE i - acris]] :
        letters \in {q \in [1..n -> FirstLetters] : \A i, j \in 1..n : q[i] = q[j] => i = j},
        how \in [1..n -> {"plain", "parens", "dash", "colon"}],
        acris \in -1..n}

CleanupInit ==
    /\ GraphOff
    /\ PhoneOff
    /\ OwnerOff
    /\ SkipOff
    /\ SheetOff
    /\ RunsOff
    /\ TwilioOff
    /\ JobsOff
    /\ CliOff
    /\ cleanup_pc = "called"
    /\ individual_owners \in UNION {OwnerListsOf(n) : n \in 0..MaxIndividuals}
    /\ cleaned_owners = <<>>

\* AnalyzerNode.run, the call of _ensure_clean_individual_owners
CallEnsureCleanIndividualOwners ==
    /\ cleanup_pc = "called"
    /\ \E oc \in {"cleaned", "short", "failed"} :
          cleaned_owners' = EnsureCleanIndividualOwners(individual_owners, oc)
    /\ cleanup_pc' = "returned"
    /\ UNCHANGED individual_owners
    /\ UNCHANGED OutsideCleanup

CleanupNext == CallEnsureCleanIndividualOwners

CleanupSpec == CleanupInit /\ [][CleanupNext]_vars

-----------------------------------------------------------------------------
(* The command line of src/run.py: main reads the addresses and calls       *)
(* process_addresses, which leaves out the addresses that have a row in     *)
(* the spreadsheet and calls graph.run for the others.                      *)

\* Most addresses on the command line
MaxArgs == 2

DefaultAddress == "798 LEXINGTON AVENUE, New York, NY"

GivenAddresses == {"1 MAIN ST", "2 PARK AVE"}

\* check_existing_addresses.  sh is the spreadsheet: sh.readable is false
\* when the file does not exist or cannot be read, and then every address
\* counts as new.
CheckExistingAddresses(addresses, sh) ==
    IF ~sh.readable
    THEN [already_processed |-> <<>>, to_process |-> addresses]
    ELSE [already_processed |-> SelectSeq(addresses, LAMBDA addr : addr \in sh.rows),
          to_process |-> SelectSeq(addresses, LAMBDA addr : addr \notin sh.rows)]

\* The arguments: the force flag, whether the list of addresses could be
\* read, and the list (empty when none was given or typed in)
Arguments ==
    [force : BOOLEAN, parsed : BOOLEAN,
     addresses : UNION {[1..n -> GivenAddresses] : n \in 0..MaxArgs}]

CliInit ==
    /\ GraphOff
    /\ PhoneOff
    /\ OwnerOff
    /\ SkipOff
    /\ SheetOff
    /\ RunsOff
    /\ TwilioOff
    /\ JobsOff
    /\ CleanupOff
    /\ cli = "started"
    /\ args \in Arguments
    /\ sheet \in [readable : BOOLEAN, rows : SUBSET (GivenAddresses \cup {DefaultAddress})]
    /\ already_processed = <<>>
    /\ to_process = <<>>
    /\ results = <<>>

\* main and process_addresses up to the loop over to_process.  With or
\* without --force main makes the same call process_addresses(addresses).
Main ==
    /\ cli = "started"
    /\ IF ~args.parsed
       THEN /\ cli' = "returned"
            /\ UNCHANGED <<already_processed, to_process>>
       ELSE LET addresses == IF args.addresses = <<>> THEN <<DefaultAddress>>
                             ELSE args.addresses
                checked == CheckExistingAddresses(addresses, sheet)
            IN  /\ already_processed' = checked.already_processed
                /\ to_process' = checked.to_process
                /\ cli' = IF checked.to_process = <<>> THEN "returned" ELSE "processing"
    /\ UNCHANGED <<args, sheet, results>>
    /\ UNCHANGED OutsideCli

\* process_addresses, one turn of the loop: graph.run for the next address
\* returns, having saved the row of the address ("saved") or not
\* ("unsaved"), or raises, which ends the program
ResearchAddress(oc) ==
    /\ cli = "processing"
    /\ LET address_ == to_process[Len(results) + 1]
       IN  IF oc = "raised"
           THEN /\ cli' = "raised"
                /\ UNCHANGED <<sheet, results>>
           ELSE /\ results' = Append(results, address_)
                /\ sheet' = IF oc = "saved"
                            THEN [readable |-> TRUE,
                                  rows |-> (IF sheet.readable THEN sheet.rows ELSE {})
                                              \cup {address_}]
                            ELSE sheet
                /\ cli' = IF Len(results) + 1 = Len(to_process) THEN "returned"
                          ELSE "processing"
    /\ UNCHANGED <<args, already_processed, to_process>>
    /\ UNCHANGED OutsideCli

CliNext == Main \/ \E oc \in {"saved", "unsaved", "raised"} : ResearchAddress(oc)

CliSpec == CliInit /\ [][CliNext]_vars

-----------------------------------------------------------------------------
(* SkipGenieNode.run with credentials set: for every individual owner      *)
(* search_skipengine logs in (a get and a post) and searches (a get and a   *)
(* post), each request through the attempts wrapper of the client.          *)

\* Most individual owners searched for
MaxSearched == 3

\* The attempts the wrapper makes, range(5)
MaxAttempts == 5

\* The requests of one search_skipengine
LastRequest == 4

\* What one call of the request inside the wrapper does: a response with
\* status 200 ("ok"), a response with another status ("bad"), a response
\* with status 401 or 403, for which the wrapper raises Exception
\* ("denied"), an exception that the wrapper does not catch ("error"), or
\* ChunkedEncodingError, ProxyError or SSLError ("transport")
RequestOutcomes == {"ok", "bad", "denied", "error", "transport"}

SkipInit ==
    /\ GraphOff
    /\ PhoneOff
    /\ OwnerOff
    /\ TwilioOff
    /\ JobsOff
    /\ CleanupOff
    /\ CliOff
    /\ SheetOff
    /\ RunsOff
    /\ sg_pc = "searching"
    /\ sg_owners \in 1..MaxSearched
    /\ sg_owner = 1
    /\ sg_request = 1
    /\ sg_attempt = 0
    /\ sg_found = <<>>

\* The search for the owner is over with result found: the loop of run
\* goes to the next owner, or run returns its update
OwnerSearched(found) ==
    /\ sg_found' = Append(sg_found, found)
    /\ sg_attempt' = 0
    /\ IF sg_owner = sg_owners
       THEN /\ sg_pc' = "returned"
            /\ UNCHANGED <<sg_owner, sg_request>>
       ELSE /\ sg_owner' = sg_owner + 1
            /\ sg_request' = 1
            /\ UNCHANGED sg_pc

\* One call of the request inside the attempts wrapper, and what follows
\* from it up to the next call.  A response that is not good, and an
\* exception, make login or search give up, and run goes on with no result
\* for the owner.  After the last failed attempt the wrapper calls exit(1):
\* SystemExit is no Exception, so none of the handlers of login, search,
\* search_skipengine and run catches it, and graph.run has no handler.
Request(oc) ==
    /\ sg_pc = "searching"
    /\ CASE oc = "transport" ->
              /\ sg_attempt' = sg_attempt + 1
              /\ sg_pc' = IF sg_attempt + 1 = MaxAttempts THEN "exited" ELSE sg_pc
              /\ UNCHANGED <<sg_owner, sg_request, sg_found>>
         [] oc = "ok" /\ sg_request < LastRequest ->
              /\ sg_request' = sg_request + 1
              /\ sg_attempt' = 0
              /\ UNCHANGED <<sg_pc, sg_owner, sg_found>>
         [] oc = "ok" /\ sg_request = LastRequest -> OwnerSearched(TRUE)
         [] OTHER -> OwnerSearched(FALSE)
    /\ UNCHANGED sg_owners
    /\ UNCHANGED OutsideSkip

SkipNext == \E oc \in RequestOutcomes : Request(oc)

SkipSpec == SkipInit /\ [][SkipNext]_vars

-----------------------------------------------------------------------------
(* FinalizeNode._save_to_spreadsheet over the executions of finalize: the   *)
(* spreadsheet is the sequence of its rows [address, data], kept in the     *)
(* local file in development and in the S3 object in production.            *)

SheetAddresses == {"1 MAIN ST", "2 PARK AVE", "3 OAK RD"}

\* What the columns after Property Address hold
RowData == {"first", "second"}

\* What an execution does.  "stored": the spreadsheet is read, if there is
\* one, and written.  "unread" (production only): file_exists or
\* download_fileobj fails for the S3 object, and a spreadsheet of the new
\* row alone is uploaded.  "fault": it raises before the spreadsheet is
\* written.
SaveOutcomes(env) ==
    IF env = "production" THEN {"stored", "unread", "fault"} ELSE {"stored", "fault"}

\* The row of the address replaced, or the row added
UpdateOrAdd(df, new_row) ==
    IF \E i \in 1..Len(df) : df[i].address = new_row.address
    THEN [i \in 1..Len(df) |-> IF df[i].address = new_row.address THEN new_row ELSE df[i]]
    ELSE Append(df, new_row)

\* _save_to_spreadsheet: the spreadsheet it leaves
SaveToSpreadsheet(df, new_row, oc) ==
    CASE oc = "stored" -> UpdateOrAdd(df, new_row)
      [] oc = "unread" -> <<new_row>>
      [] oc = "fault" -> df

SheetInit ==
    /\ GraphOff
    /\ PhoneOff
    /\ OwnerOff
    /\ TwilioOff
    /\ JobsOff
    /\ CleanupOff
    /\ CliOff
    /\ SkipOff
    /\ RunsOff
    /\ environment \in {"development", "production"}
    /\ spreadsheet = <<>>
    /\ saved = NoSave

\* FinalizeNode.run for a record with this address and these data
FinalizeSave(addr, data, oc) ==
    /\ environment # "off"
    /\ oc \in SaveOutcomes(environment)
    /\ spreadsheet' = SaveToSpreadsheet(spreadsheet, [address |-> addr, data |-> data], oc)
    /\ saved' = [address |-> addr, data |-> data, stored |-> oc # "fault"]
    /\ UNCHANGED environment
    /\ UNCHANGED OutsideSheet

SheetNext ==
    \E addr \in SheetAddresses, data \in RowData, oc \in {"stored", "unread", "fault"} :
        FinalizeSave(addr, data, oc)

SheetSpec == SheetInit /\ [][SheetNext]_vars

-----------------------------------------------------------------------------
(* Several calls of run, one after the other, on one PropertyResearchGraph  *)
(* and its compiled graph.                                                  *)

MaxRuns == 2

RunsInit ==
    /\ address \in Addresses
    /\ status = "idle"
    /\ exc = "-"
    /\ failed = "-"
    /\ rec = [address |-> address]
    /\ running = {}
    /\ done = {}
    /\ ups = <<>>
    /\ last = <<>>
    /\ sched = {}
    /\ started = [n \in Nodes |-> 0]
    /\ finished = [n \in Nodes |-> 0]
    /\ raisedIn = <<>>
    /\ faults = EmptyBag
    /\ PhoneOff
    /\ OwnerOff
    /\ TwilioOff
    /\ JobsOff
    /\ CleanupOff
    /\ CliOff
    /\ SkipOff
    /\ SheetOff
    /\ runs = 1

\* The next call run(a) after a call that returned or raised, up to "if
\* address: self.set_address(address)".  The record of the call before is
\* what that call gave back; the compiled graph is the cached one and holds
\* nothing of it.
RunAgain(a) ==
    /\ status \in {"returned", "raised"}
    /\ runs \in 1..(MaxRuns - 1)
    /\ runs' = runs + 1
    /\ address' = IF a # "" THEN a ELSE address
    /\ status' = "idle"
    /\ exc' = "-"
    /\ failed' = "-"
    /\ running' = {}
    /\ done' = {}
    /\ ups' = <<>>
    /\ last' = <<>>
    /\ sched' = {}
    /\ started' = [n \in Nodes |-> 0]
    /\ finished' = [n \in Nodes |-> 0]
    /\ raisedIn' = <<>>
    /\ faults' = EmptyBag
    /\ UNCHANGED rec
    /\ UNCHANGED OutsideRuns

RunsNext ==
    \/ Next
    \/ \E a \in Addresses : RunAgain(a)

RunsSpec == RunsInit /\ [][RunsNext]_vars

-----------------------------------------------------------------------------
(* Properties of a run.                                                    *)

\* How often entry e occurs in the list q
Count(q, e) == Cardinality({i \in 1..Len(q) : q[i] = e})

Entries(q) == {q[i] : i \in 1..Len(q)}

\* The run is past the superstep of the four initial lookups
FanOutMerged ==
    /\ status \in {"running", "finished", "returned"}
    /\ \A n \in {"zola_search", "reonomy_search", "acris_search", "property_shark_search"} :
          finished[n] = 1 /\ n \notin done

Faulted(m) == BagIn(E(m), faults)

\* C1: for a non-empty address run returns a record, whatever the
\* collectors do: run never ends by raising.
C1_RunReturnsRecord == address # "" => status # "raised"

\* C2: when analyze_owner returns only its error update, its outgoing edges
\* are still evaluated and search_skipgenie or search_opencorporates is
\* scheduled.
C2_FaultedAnalyzeRoutes ==
    ("analyze_owner" \in DOMAIN ups
        /\ ups["analyze_owner"]["current_step"] = "Analysis failed")
    => /\ failed # "analyze_owner"
       /\ sched \cap {"search_skipgenie", "search_opencorporates"} # {}

\* C3: analyze_owner is never started while one of its predecessor steps
\* zola_search, property_shark_search, acris_search or process_documents is
\* still executing.
C3_AnalyzeAfterPredecessors ==
    \A p \in {"zola_search", "property_shark_search", "acris_search", "process_documents"} :
        ~(p \in running /\ started["analyze_owner"] > 0)

\* C4: after the updates of the four initial lookups are merged, the field
\* of every lookup that succeeded holds the value it produced, and the merge
\* does not fail.
C4_BranchContributionsKept ==
    /\ exc # "InvalidUpdateError"
    /\ FanOutMerged =>
          /\ ~Faulted("ZoLa search error") => Truthy(Get(rec, "zola_owner_name", "None"))
          /\ ~Faulted("ACRIS search error") => Truthy(Get(rec, "acris_property_records", "None"))
          /\ ~Faulted("PropertyShark search error")
                => Truthy(Get(rec, "property_shark_ownership_data", "None"))
          /\ ~Faulted("Reonomy search error") => Truthy(Get(rec, "reonomy_address_data", "None"))

\* C5: every value a step returns for a key with a reducer is one the
\* reducer accepts, so merging never faults.
C5_UpdatesAcceptedByReducers == ~ReducerFault(ups) /\ exc # "TypeError"

\* The reducer keys of the record after update a, then update b
ReducedPart(s, a, b) ==
    LET m == MergeOne(MergeOne(s, a), b) IN [k \in ReducerKeys |-> m[k]]

\* C6 as stated: for any two updates returned in the same superstep, merging
\* them in either order gives the same values of the reducer keys.
C6_MergeOrderIrrelevant ==
    \A n1, n2 \in DOMAIN ups :
        ReducedPart(rec, ups[n1], ups[n2]) = ReducedPart(rec, ups[n2], ups[n1])

\* C6 amended: merging two updates of the same superstep in either order
\* gives the same address and zola_owner_name, and errors and next_steps
\* with the same entries the same number of times; the order of the entries
\* and current_step follow the order of merging.
C6_MergeOrderUpToOrder ==
    \A n1, n2 \in DOMAIN ups :
        LET ab == ReducedPart(rec, ups[n1], ups[n2])
            ba == ReducedPart(rec, ups[n2], ups[n1])
        IN  /\ ab["address"] = ba["address"]
            /\ ab["zola_owner_name"] = ba["zola_owner_name"]
            /\ BagOf(ab["errors"].items) = BagOf(ba["errors"].items)
            /\ BagOf(ab["next_steps"].items) = BagOf(ba["next_steps"].items)
            /\ ab["current_step"] = ups[n2]["current_step"]
            /\ ba["current_step"] = ups[n1]["current_step"]

\* Two steps of one superstep have returned different errors
C6_Witness ==
    \E n1, n2 \in DOMAIN ups :
        /\ n1 # n2
        /\ "errors" \in DOMAIN ups[n1] /\ "errors" \in DOMAIN ups[n2]
        /\ ~ups[n1]["errors"].none /\ ~ups[n2]["errors"].none
        /\ ups[n1]["errors"].items # <<>> /\ ups[n2]["errors"].items # <<>>
        /\ ups[n1]["errors"].items # ups[n2]["errors"].items

RunOver == status = "returned" \/ (status = "raised" /\ exc # "ValueError")

\* C7: in every run refine_phone_numbers executes exactly once, and it
\* starts only when search_skipgenie and search_true_people have no
\* execution left.
C7_RefineOnceAfterSearches ==
    /\ RunOver => finished["refine_phone_numbers"] = 1
    /\ started["refine_phone_numbers"] > 0
          => (running \cup sched) \cap {"search_skipgenie", "search_true_people"} = {}

\* C8: once finalize has started, no other step is executing or scheduled.
C8_FinalizeLast ==
    started["finalize"] > 0 => (running \cup sched) \subseteq {"finalize"}

\* C9: the update a step returns carries an errors entry for every lookup
\* that raised inside it.
C9_LookupFaultsRecorded ==
    \A n \in DOMAIN raisedIn : \A i \in 1..Len(raisedIn[n]) :
        /\ "errors" \in DOMAIN ups[n]
        /\ raisedIn[n][i] \in Entries(ups[n]["errors"].items)

\* C10: no entry of errors appears more often than its fault occurred, and
\* in the final record every entry appears exactly as often.
C10_OneEntryPerFault ==
    status \in {"running", "finished", "returned"} =>
        \A e \in Entries(rec["errors"].items) :
            /\ Count(rec["errors"].items, e) <= CopiesIn(e, faults)
            /\ status = "returned" => Count(rec["errors"].items, e) = CopiesIn(e, faults)

IsPrefix(p, q) == Len(p) <= Len(q) /\ SubSeq(q, 1, Len(p)) = p

\* C11: across every merge the errors of the record before the merge are a
\* prefix of the errors after it: errors stays a list, never gets shorter
\* and no entry is removed or reordered.
C11_ErrorsAppendOnly ==
    [][("errors" \in DOMAIN rec /\ "errors" \in DOMAIN rec')
         => /\ ~rec'["errors"].none
            /\ IsPrefix(rec["errors"].items, rec'["errors"].items)]_vars

\* A merge has appended to errors that were not empty: the record holds the
\* entry of reonomy_search followed by the entry of a later step
C11_Witness ==
    /\ status \in {"running", "finished", "returned"}
    /\ Len(rec["errors"].items) >= 2
    /\ rec["errors"].items[1] \in {E("ZoLa search error"), E("Reonomy search error"),
                                   E("ACRIS search error"), E("PropertyShark search error")}
    /\ \E i \in 2..Len(rec["errors"].items) :
          rec["errors"].items[i] \in {E("Analysis error"), E("OpenCorporates search error"),
                                      E("Phone number refinement error")}

\* C12: from invoke on, the address of the record is the non-empty address
\* the run was started with, no returned update changes it when merged, and
\* without an address run raises before any step is started.
C12_AddressKept ==
    /\ (status # "idle" /\ exc # "ValueError")
          => /\ address # ""
             /\ rec["address"] = address
             /\ \A n \in DOMAIN ups : MergeOne(rec, ups[n])["address"] = address
    /\ address = "" => (status \in {"idle", "raised"} /\ \A n \in Nodes : started[n] = 0)

\* A step has returned an update that carries an address
C12_Witness ==
    /\ status = "running"
    /\ \E n \in DOMAIN ups : "address" \in DOMAIN ups[n]

\* C13: whatever a step that is executing does, it leaves the snapshot it
\* was called with unchanged.
C13_SnapshotUnchanged ==
    status = "running" =>
        \A n \in running : \A oc \in Outcomes(n, rec) : SnapshotAfter(n, rec, oc) = rec

\* C14: when acris_search has completed, its edge has scheduled exactly one
\* of process_documents and analyze_owner: process_documents if and only if
\* the record with the update of acris_search applied holds ACRIS records
\* with a non-empty files list, analyze_owner otherwise, as after a fault.
C14_AcrisRoutesOne ==
    ("acris_search" \in done /\ "acris_search" \in DOMAIN ups) =>
        LET local == MergeOne(rec, ups["acris_search"])
            files == Get(local, "acris_property_records", "None") = "files"
            to == Targets("acris_search", local)
        IN  /\ Cardinality(to) = 1
            /\ to \subseteq {"process_documents", "analyze_owner"}
            /\ to \subseteq sched
            /\ "process_documents" \in sched <=> files
            /\ ~files => "analyze_owner" \in sched
            /\ ups["acris_search"]["current_step"] = "ACRIS search failed" => ~files

\* acris_search has returned records with files and process_documents is
\* scheduled
C14_Witness ==
    /\ "acris_search" \in done /\ "acris_search" \in DOMAIN ups
    /\ Get(ups["acris_search"], "acris_property_records", "None") = "files"
    /\ "process_documents" \in sched

\* C15: once zola_search, property_shark_search and acris_search have
\* completed and analyze_owner is scheduled, analyze_owner is not kept from
\* starting by reonomy_search still executing.
C15_AnalyzeNotDelayedByReonomy ==
    ~ /\ status = "running"
      /\ {"zola_search", "property_shark_search", "acris_search"} \subseteq done
      /\ "analyze_owner" \in sched
      /\ "process_documents" \notin sched
      /\ running = {"reonomy_search"}
      /\ ~ENABLED ApplyWrites

-----------------------------------------------------------------------------
(* Properties of the refiner.                                              *)

\* The digits of a reported number, in order
DigitsOnly(number) == SelectSeq(number, IsDigit)

\* All reports of the three sources, each with its source
AllReports ==
    Elems(FromSource("PropertyShark", phones.property_shark))
        \cup Elems(FromSource("SkipGenie", phones.skipgenie))
        \cup Elems(FromSource("TruePeopleSearch", phones.truepeoplesearch))

\* C16: _normalize_phone_data yields exactly one entry per distinct digit
\* string among the reports, the sources of an entry are exactly the sources
\* that reported these digits in any format, and a report without digits
\* yields no entry.
C16_OneEntryPerDigits ==
    phase \in {"normalized", "analysed"} =>
        /\ \A i, j \in 1..Len(normalized_numbers) :
              normalized_numbers[i].key = normalized_numbers[j].key => i = j
        /\ {normalized_numbers[i].key : i \in 1..Len(normalized_numbers)}
              = {DigitsOnly(r.number) : r \in AllReports} \ {<<>>}
        /\ \A i \in 1..Len(normalized_numbers) :
              Elems(normalized_numbers[i].sources)
                = {r.source : r \in {x \in AllReports :
                                        DigitsOnly(x.number) = normalized_numbers[i].key}}

\* Two sources reported the same digits in different formats, a third report
\* had no digits, and the reports were normalized
C16_Witness ==
    /\ phase = "normalized"
    /\ \E r1, r2, r3 \in AllReports :
          /\ r1.source # r2.source
          /\ r1.number # r2.number
          /\ DigitsOnly(r1.number) = DigitsOnly(r2.number)
          /\ DigitsOnly(r1.number) # <<>>
          /\ r3.number # <<>> /\ DigitsOnly(r3.number) = <<>>
    /\ Len(normalized_numbers) = 1

\* A phone list with only the first report of every number
Once(phone_list) ==
    SelectSeq([i \in 1..Len(phone_list) |->
                  [r |-> phone_list[i],
                   first |-> \A j \in 1..(i-1) : phone_list[j].number # phone_list[i].number]],
              LAMBDA x : x.first)

\* The candidates of an analysis: number, sources and confidence
Candidates(a) ==
    {[number |-> e.number, sources |-> e.sources, confidence |-> e.confidence] :
        e \in Elems(a.refined_phone_numbers)}

\* C17: when a source reports the same number more than once, the analysis
\* gives the same candidates, with the same sources and confidence, as when
\* it reports it once, and no candidate lists a source twice.
C17_ReportTwiceAsOnce ==
    phase = "analysed" =>
        LET ps == [i \in 1..Len(Once(phones.property_shark)) |->
                      Once(phones.property_shark)[i].r]
            sg == [i \in 1..Len(Once(phones.skipgenie)) |-> Once(phones.skipgenie)[i].r]
            tps == [i \in 1..Len(Once(phones.truepeoplesearch)) |->
                      Once(phones.truepeoplesearch)[i].r]
            once == SimplePhoneAnalysis(NormalizePhoneData(ps, sg, tps), IndividualOwners)
        IN  /\ Candidates(analysis) = Candidates(once)
            /\ \A e \in Elems(analysis.refined_phone_numbers) :
                  \A i, j \in 1..Len(e.sources) : e.sources[i] = e.sources[j] => i = j

\* C18: with PropertyShark the authoritative source, a number reported by
\* one other source only is low, by PropertyShark only is medium, and by
\* PropertyShark and another source, or by two other sources, is high.
C18_ConfidenceRule ==
    phase = "analysed" =>
        \A e \in Elems(analysis.refined_phone_numbers) :
            LET by == Elems(e.sources)
                others == by \ {"PropertyShark"}
            IN  e.confidence =
                    IF "PropertyShark" \in by
                    THEN (IF others # {} THEN "high" ELSE "medium")
                    ELSE (IF Cardinality(others) >= 2 THEN "high" ELSE "low")

\* The phone lists with one more report r from source
WithReport(ph, source, r) ==
    CASE source = "PropertyShark" -> [ph EXCEPT !.property_shark = Append(@, r)]
      [] source = "SkipGenie" -> [ph EXCEPT !.skipgenie = Append(@, r)]
      [] source = "TruePeopleSearch" -> [ph EXCEPT !.truepeoplesearch = Append(@, r)]

\* C19: when a number of medium confidence is also reported by a source
\* that had not reported it, its confidence is not lower than medium, and is
\* medium or high.
C19_CorroborationRaises ==
    phase = "analysed" =>
        \A i \in 1..Len(normalized_numbers) :
            Confidence(normalized_numbers[i].sources) = "medium" =>
                \A source \in {"PropertyShark", "SkipGenie", "TruePeopleSearch"}
                                \ Elems(normalized_numbers[i].sources) :
                    LET ph == WithReport(phones, source,
                                         [number |-> normalized_numbers[i].key,
                                          contact_name |-> "JOHN DOE"])
                        data == NormalizePhoneData(ph.property_shark, ph.skipgenie,
                                                   ph.truepeoplesearch)
                        after == {Confidence(data[j].sources) :
                                    j \in {k \in 1..Len(data) :
                                             data[k].key = normalized_numbers[i].key}}
                    IN  /\ after # {}
                        /\ \A c \in after :
                              /\ ConfidenceOrder(c) <= ConfidenceOrder("medium")
                              /\ c \in {"medium", "high"}

\* C20: the refined phone numbers are in order of non-increasing confidence
\* and the primary phone is the number of the first, so no refined number is
\* more confident than the primary; without refined numbers it is empty.
C20_PrimaryMostConfident ==
    phase = "analysed" =>
        LET q == analysis.refined_phone_numbers
        IN  /\ \A i, j \in 1..Len(q) :
                  i <= j => ConfidenceOrder(q[i].confidence) <= ConfidenceOrder(q[j].confidence)
            /\ q # <<>> => analysis.primary_phone = q[1].number
            /\ q = <<>> => analysis.primary_phone = <<>>
            /\ Len(q) = Len(normalized_numbers)

\* The number reported first is less confident than one reported later,
\* and the analysis has put the later one first
C20_Witness ==
    /\ phase = "analysed"
    /\ Len(normalized_numbers) >= 2
    /\ ConfidenceOrder(Confidence(normalized_numbers[1].sources))
          > ConfidenceOrder(Confidence(normalized_numbers[2].sources))
    /\ analysis.primary_phone = normalized_numbers[2].number

-----------------------------------------------------------------------------
(* Further properties of a run.                                            *)

-----------------------------------------------------------------------------
(* Further properties of the refiner.                                      *)

\* How many reports name contact c together with the digits k
CoReports(k, c) ==
    LET q == FromSource("PropertyShark", phones.property_shark)
                \o FromSource("SkipGenie", phones.skipgenie)
                \o FromSource("TruePeopleSearch", phones.truepeoplesearch)
    IN  Cardinality({i \in 1..Len(q) : DigitsOnly(q[i].number) = k /\ q[i].contact_name = c})

\* The name most often reported with the digits k, "Unknown" on a tie
MostCoReported(k) ==
    LET top == {c \in ContactNames : \A d \in ContactNames : CoReports(k, c) >= CoReports(k, d)}
    IN  IF Cardinality(top) = 1 THEN CHOOSE c \in top : TRUE ELSE "Unknown"

\* C22: the contact_name of every refined phone entry is the name most
\* frequently reported together with its number, and "Unknown" when two
\* names tie.
C22_ContactMostCoReported ==
    phase = "analysed" =>
        \A i \in 1..Len(normalized_numbers) :
            \A e \in Elems(analysis.refined_phone_numbers) :
                (e.number = normalized_numbers[i].number
                    /\ e.sources = normalized_numbers[i].sources)
                => e.contact_name = MostCoReported(normalized_numbers[i].key)

-----------------------------------------------------------------------------
(* Properties of the rule-based owner extraction.                          *)

\* The names the three sources report: PropertyShark, documents, ZoLa
Reported ==
    <<owner_data.ps_owner, AcrisOwner(owner_data.property_ownership_records),
      owner_data.zola_owner>>

\* The source the owner name is taken from (0: none reports a name)
Chosen ==
    IF Reported[1] # <<>> THEN 1 ELSE IF Reported[2] # <<>> THEN 2
    ELSE IF Reported[3] # <<>> THEN 3 ELSE 0

\* C23: the confidence is high exactly when another source matches the
\* chosen owner name, medium when PropertyShark or the documents give the
\* name and no other source reports one, and low otherwise.
C23_OwnerConfidence ==
    extraction # NoExtraction =>
        LET matched == Chosen # 0 /\ \E i \in 1..3 :
                          i # Chosen /\ NamesMatch(Reported[Chosen], Reported[i])
            alone == Chosen \in {1, 2} /\ \A i \in 1..3 : i # Chosen => Reported[i] = <<>>
        IN  extraction.confidence =
                IF matched THEN "high" ELSE IF alone THEN "medium" ELSE "low"

\* C24: the owner name is that of PropertyShark if it reports one, else
\* that of the documents, else that of ZoLa, whatever the sources of lower
\* priority report, and "Unknown" only when none reports a name.
C24_OwnerBySourcePriority ==
    extraction # NoExtraction =>
        /\ Chosen # 0 => extraction.owner_name = Reported[Chosen]
        /\ extraction.owner_name = Unknown <=> Chosen = 0

\* PropertyShark reported one name, another source a name that does not
\* match it, and the extraction has run
C24_Witness ==
    /\ extraction # NoExtraction
    /\ Reported[1] # <<>>
    /\ \E i \in 2..3 : Reported[i] # <<>> /\ ~NamesMatch(Reported[1], Reported[i])
    /\ owner_data.property_ownership_records # <<>>

-----------------------------------------------------------------------------
(* Properties of the phone validation.                                     *)

\* The numbers of the phones that validation reported valid
ValidNumbers == {validation_results.valid[i].number : i \in 1..Len(validation_results.valid)}

\* C25: whenever the cleaned form of the contact_number of the state is
\* among the phones validation reported valid, the primary phone that
\* TwilioNode selects is that phone, whatever other phones are valid and in
\* whatever order they were validated.
C25_ContactNumberPreferred ==
    (twilio_pc = "returned" /\ CleanPhoneNumber(twilio_state.contact_number) \in ValidNumbers)
        => primary_phone.number = CleanPhoneNumber(twilio_state.contact_number)

\* The contact number is valid but neither the first valid phone nor from
\* the US, while the first valid phone is
C25_Witness ==
    /\ twilio_pc = "returned"
    /\ Len(validation_results.valid) >= 2
    /\ CleanPhoneNumber(twilio_state.contact_number) \in ValidNumbers
    /\ validation_results.valid[1].number # CleanPhoneNumber(twilio_state.contact_number)
    /\ validation_results.valid[1].country_code = "US"
    /\ primary_phone.country_code = "GB"

-----------------------------------------------------------------------------
(* Properties of the API.                                                   *)

\* How far a status is on the way of a job
StatusRank(st) ==
    CASE st = "pending" -> 0
      [] st = "processing" -> 1
      [] st \in {"completed", "failed"} -> 2

\* C26: the status of a job only moves forward through pending, processing,
\* then completed or failed: a job stays known, its status never moves
\* back, and a completed or failed job keeps its status, for any number of
\* addresses and any outcomes of the runs.
C26_StatusForward ==
    [][\A job_id \in DOMAIN jobs :
          /\ job_id \in DOMAIN jobs'
          /\ StatusRank(jobs[job_id].status) <= StatusRank(jobs'[job_id].status)
          /\ jobs[job_id].status \in {"completed", "failed"}
                => jobs'[job_id].status = jobs[job_id].status]_vars

\* A job of two addresses is completed, one of its runs having raised,
\* while another job is still being processed
C26_Witness ==
    \E job_id \in DOMAIN jobs :
        /\ jobs[job_id].status = "completed"
        /\ jobs[job_id].total_addresses = 2
        /\ \E i \in 1..2 : jobs[job_id].results[i].errors # <<>>
        /\ \E other \in DOMAIN jobs : jobs[other].status = "processing"


------------------------------------------------------------------------\* The results of the jobs that hold owner data
WithOwner == {<<job_id, i>> \in JobIds \X (1..MaxAddresses) :
                 /\ job_id \in DOMAIN jobs
                 /\ i <= jobs[job_id].total_addresses
                 /\ jobs[job_id].results[i].owner_name # <<>>}

\* C33: with several jobs processed through the one graph object, the
\* owner data written to the i-th result of a job come from a run whose
\* record has the i-th address of that job, never an address of another
\* job or entry.
C33_ResultFromOwnAddress ==
    \A e \in WithOwner :
        /\ jobs[e[1]].results[e[2]].address = AddressOf(e[1], e[2])
        /\ jobs[e[1]].results[e[2]].owner_name = AddressOf(e[1], e[2])

\* Two jobs hold owner data while one of them is still being processed and
\* the graph object has the address of the other
C33_Witness ==
    \E e, f \in WithOwner :
        /\ e[1] # f[1]
        /\ jobs[e[1]].status = "processing"
        /\ graph_address = AddressOf(f[1], f[2])

\* C35: a failure while researching one address of a job stays with that
\* address: its result is completed with one error entry,
\* completed_addresses counts every completed result once, the task of the
\* job goes on to the remaining addresses, and the job ends completed, never
\* failed, with completed_addresses equal to total_addresses.
C35_FailureConfined ==
    \A job_id \in DOMAIN jobs :
        LET job == jobs[job_id]
            n == job.total_addresses
        IN  /\ \A i \in 1..n : job.results[i].errors # <<>>
                  => job.results[i].completed /\ job.results[i].errors = <<"Processing error">>
            /\ job.completed_addresses = Cardinality({i \in 1..n : job.results[i].completed})
            /\ job.status # "failed"
            /\ tasks[job_id].at \in {"ready", "running", "sleeping"} => server = "up"
            /\ tasks[job_id].at = "done"
                  => job.status = "completed" /\ job.completed_addresses = n

-----
(* Properties of the owner cleanup.                                         *)

\* Where the owner that became o stood in the list the cleanup was called
\* with: the cleaning keeps the first letter of a name, and no two owners
\* of the list share it
InputIndex(o) == CHOOSE k \in 1..Len(individual_owners) : individual_owners[k].name[1] = o.name[1]

\* C27: the owners that _ensure_clean_individual_owners returns stand in
\* the same relative order as in the list it was called with, whichever of
\* the names had annotations and were cleaned.
C27_CleanupKeepsOrder ==
    cleanup_pc = "returned"
        => \A i, j \in 1..Len(cleaned_owners) :
              i < j => InputIndex(cleaned_owners[i]) < InputIndex(cleaned_owners[j])

-----------------------------------------------------------------------------
(* Properties of the command line.                                          *)

\* The addresses of q
AddressesOf(q) == {q[i] : i \in 1..Len(q)}

\* C28: when the command line has ended, with --force every address it was
\* given has been researched, those with a row in the spreadsheet included;
\* without --force the addresses that had a row have not been researched.
C28_ForceResearchesAll ==
    (cli = "returned" /\ args.parsed)
        => IF args.force
           THEN AddressesOf(args.addresses) \subseteq AddressesOf(results)
           ELSE AddressesOf(already_processed) \cap AddressesOf(results) = {}

-----------------------------------------------------------------------------
(* Properties of the steps after the searches.                              *)

\* C29: when acris_search stored a result with files, process_documents
\* processes them: unless the extraction fails, it reports the processing
\* completed, not skipped, and returns the extracted records under
\* property_ownership_records, the key that analyze_owner reads.
C29_DocumentsProcessed ==
    (status = "running" /\ "process_documents" \in running
        /\ Get(rec, "acris_property_records", "None") = "files")
        => LET u == NodeRun("process_documents", rec, "ok").upd
           IN  /\ u["current_step"] = "Document processing completed"
               /\ "property_ownership_records" \in DOMAIN u
               /\ u["property_ownership_records"] # "None"


\* C30: when analyze_owner has completed, exactly one of
\* search_opencorporates and search_skipgenie is scheduled:
\* search_opencorporates if and only if the record with the update of
\* analyze_owner applied has has_individual_owners false and owner_type
\* "llc" in any case.  search_skipgenie runs in every run, and
\* search_true_people, refine_phone_numbers and finalize follow it in that
\* order.
C30_AnalyzeRoutesOneThenChain ==
    /\ ("analyze_owner" \in done /\ "analyze_owner" \in DOMAIN ups)
          => LET local == MergeOne(rec, ups["analyze_owner"])
                 llc == /\ ~Get(local, "has_individual_owners", FALSE)
                        /\ Lower(Get(local, "owner_type", "")) = "llc"
             IN  sched \cap {"search_opencorporates", "search_skipgenie"}
                    = IF llc THEN {"search_opencorporates"} ELSE {"search_skipgenie"}
    /\ (address # "" /\ RunOver)
          => \A n \in {"search_skipgenie", "search_true_people",
                       "refine_phone_numbers", "finalize"} : finished[n] >= 1
    /\ started["search_true_people"] > 0 => finished["search_skipgenie"] > 0
    /\ started["refine_phone_numbers"] > 0 => finished["search_true_people"] > 0
    /\ started["finalize"] > 0 => finished["refine_phone_numbers"] > 0

-----------------------------------------------------------------------------
(* Properties of the SkipGenie search.                                      *)

\* C31: when all five attempts of a SkipGenie request have failed with a
\* transport error, the step gets the failure as an ordinary error: the
\* process is not ended, and the step goes on or returns, so that the run
\* continues.
C31_RetriesExhaustedNotFatal ==
    sg_attempt = MaxAttempts => sg_pc \in {"searching", "returned"}

-----------------------------------------------------------------------------
(* Properties of the spreadsheet.                                           *)

\* The rows of df for addresses other than addr
OtherRows(df, addr) == SelectSeq(df, LAMBDA row : row.address # addr)

\* C32: the spreadsheet holds at most one row per address after any
\* executions of finalize; an execution that stores its row leaves exactly
\* one row for its address, holding the new data, and leaves the rows of
\* the other addresses as they were.
C32_OneRowPerAddress ==
    [][/\ \A addr \in SheetAddresses :
             Cardinality({i \in 1..Len(spreadsheet') : spreadsheet'[i].address = addr}) <= 1
       /\ saved'.stored
             => /\ \E i \in 1..Len(spreadsheet') :
                      spreadsheet'[i] = [address |-> saved'.address, data |-> saved'.data]
                /\ OtherRows(spreadsheet', saved'.address)
                      = OtherRows(spreadsheet, saved'.address)]_vars

-----------------------------------------------------------------------------
(* Properties of successive runs.                                           *)

\* The keys of the record that hold what a source, the analysis of the
\* owner or a phone search found
ScalarFields ==
    {"zola_owner_name", "acris_property_records", "property_ownership_records",
     "property_shark_ownership_data", "company_registry_data",
     "person_search_results", "owner_name", "owner_type", "contact_number"}

ListFields ==
    {"property_shark_phones", "skipgenie_phones", "truepeoplesearch_phones",
     "refined_phone_numbers", "individual_owners"}

CleanRecord(r) ==
    /\ r["errors"] = L(<<>>)
    /\ \A k \in ScalarFields : r[k] = "None"
    /\ \A k \in ListFields : r[k] = NoneL
    /\ r["has_individual_owners"] = FALSE
    /\ "reonomy_address_data" \notin DOMAIN r
    /\ "refined_phone_data" \notin DOMAIN r

\* C34: every call of run on the same compiled graph hands the graph a
\* clean record for the address of the call: no errors, no source, owner or
\* phone field set, has_individual_owners false, whatever the call before
\* left.
C34_RunStartsClean ==
    [][status = "idle" /\ status' = "running"
          => CleanRecord(rec') /\ rec'["address"] = address']_vars

\* The second call is about to build its record on a graph whose first
\* call returned a record with errors, an owner and phone numbers
C34_Witness ==
    /\ runs = 2
    /\ status = "idle"
    /\ address # ""
    /\ "current_step" \in DOMAIN rec
    /\ rec["current_step"] = "workflow completed"
    /\ rec["errors"].items # <<>>
    /\ rec["owner_name"] # "None"
    /\ rec["skipgenie_phones"] # NoneL

-----------------------------------------------------------------------------
(* Properties of the refined phone numbers as displayed.                    *)

\* C36: no two entries of refined_phone_numbers of the rule-based analysis
\* have the same number: reports whose numbers are displayed alike are one
\* entry.
C36_OneEntryPerDisplayedNumber ==
    phase = "analysed" =>
        \A i, j \in 1..Len(analysis.refined_phone_numbers) :
            analysis.refined_phone_numbers[i].number = analysis.refined_phone_numbers[j].number
                => i = j

====
